---- MODULE Spec2Model ----
(***************************************************************************)
(* StealthPay402: the settlement state machine of StealthPaymentRouter     *)
(* together with the contracts it calls (MockUSDC, StealthAnnouncer,       *)
(* AgentRegistry, ComplianceGate).  One action is one transaction; a       *)
(* transaction whose call fails a require reverts as a whole.              *)
(***************************************************************************)
EXTENDS Integers, Sequences, FiniteSets, TLC

\* ------------------------------------------------------------------ bounds
InitialBalance == 10001     \* USDC units minted to each payer
MaxBatchLen == 2            \* longest batch enumerated item by item
MaxHandled == 2             \* requests the servers let through to a handler
MaxCalls == 2               \* calls of payForAccess the agent makes
MaxDays == 1                \* number of whole days the clock may advance
MaxGateDays == 2            \* days the clock may advance while verifications age
MaxPrincipal == 2           \* assets the vault may hold from deposits, net of withdrawals
MaxKeyNonce == 2            \* delegated key registrations accepted for one registrant
MaxMessages == 2            \* messages handed to the bridge
CurveOrder == 5             \* order n of the group that stands for secp256k1
MaxAnnounced == 2           \* announcements a scan reads

\* ------------------------------------------------------- program constants
MAX_FEE == 100
MAX_BATCH == 50
ONE_DAY == 86400
SCHEME_ID == 1
DEFAULT_FEE_BPS == 10
DEFAULT_DAILY_LIMIT == 1000000000
INITIAL_REPUTATION == 500
MAX_REPUTATION == 1000
COMPLIANCE_EXPIRY == 31536000

\* ---------------------------------------------------------------- addresses
ZERO == "0x0"
OWNER == "owner"
MALLORY == "mallory"
ROUTER == "router"
FEE_VAULT == "feeVault"
TREASURY == "treasury"
CROSS_CHAIN_ROUTER == "crossChainRouter"
BRIDGE == "bridge"
REMOTE == "remoteRouter"
AGENT_REGISTRY == "agentRegistry"
COMPLIANCE_GATE == "complianceGate"
NOBODY == "unrecoverable"
Payers == {"alice", "bob"}
StealthAddrs == {"s1", "s2"}
Accounts == Payers \cup StealthAddrs \cup {ROUTER, FEE_VAULT, TREASURY, CROSS_CHAIN_ROUTER}
Nonces == {"n1", "n2"}
Callers == {OWNER, MALLORY}
\* a request without an X-PAYMENT header
NoHeader == [encoding |-> "none"]

VARIABLES
    now,                  \* block.timestamp
    balances,             \* MockUSDC balances
    authorizationStates,  \* MockUSDC._authorizationStates, as a set of <<from, nonce>>
    processed,            \* StealthPaymentRouter.processed, as the set of nonces mapped to true
    platformFeeBps,       \* StealthPaymentRouter.platformFeeBps
    paused,               \* Pausable._paused of the router
    approvedFacilitators, \* StealthPaymentRouter.approvedFacilitators, as the set mapped to true
    gateway,              \* the paying agent's position in payForAccess and the requests the servers let through
    announced,            \* StealthAnnouncer.announced, as a set of addresses
    announcementCount,    \* StealthAnnouncer.announcementCount
    announcements,        \* the Announcement events emitted so far, in order
    agents,               \* AgentRegistry._agents
    complianceRequired,   \* ComplianceGate.complianceRequired
    isCompliant,          \* ComplianceGate.isCompliant, as a set of addresses
    verifiedAt,           \* ComplianceGate.verifiedAt
    complianceExpiry,     \* ComplianceGate.complianceExpiry
    vaultShares,          \* FeeVault (ERC20 of the vault's shares) balances
    approvals,            \* MockUSDC allowances: the <<owner, spender>> with an unlimited one
    nonces,               \* StealthMetaRegistry.nonces
    stealthMetaAddresses, \* StealthMetaRegistry._stealthMetaAddresses
    messages,             \* MockBridge.messages
    processedMessages,    \* CrossChainRouter.processedMessages, as the set of hashes mapped to true
    totalSent,            \* CrossChainRouter.totalSent
    totalReceived,        \* CrossChainRouter.totalReceived
    registrationFee,      \* AgentRegistry.registrationFee
    paymentLog,           \* the PaymentProcessed events emitted so far, in order
    receipt,              \* outcome of the latest transaction
    before                \* the state the latest transaction started from

vars == <<now, balances, authorizationStates, processed, platformFeeBps, paused,
          approvedFacilitators, gateway,
          announced, announcementCount, announcements, agents,
          complianceRequired, isCompliant, verifiedAt, complianceExpiry,
          vaultShares, approvals, nonces, stealthMetaAddresses, messages,
          processedMessages, totalSent, totalReceived, registrationFee,
          paymentLog, receipt, before>>

\* ------------------------------------------------------------ call results
\* The state one transaction reads and writes, threaded through the calls.
World ==
    [balances |-> balances, authorizationStates |-> authorizationStates,
     processed |-> processed, announced |-> announced,
     announcementCount |-> announcementCount, announcements |-> announcements,
     agents |-> agents, paymentLog |-> paymentLog]

Ok(w) ==
    [ok |-> TRUE, reason |-> "", cause |-> "", w |-> w, amount |-> 0, fee |-> 0,
     failedAt |-> 0]
Fail(w, reason) ==
    [ok |-> FALSE, reason |-> reason, cause |-> "", w |-> w, amount |-> 0, fee |-> 0,
     failedAt |-> 0]

\* ----------------------------------------------------------------- MockUSDC
\* EIP-712 struct hash of a TransferWithAuthorization: one digest per field tuple.
structHash(from, to, value, validAfter, validBefore, nonce) ==
    [from |-> from, to |-> to, value |-> value,
     validAfter |-> validAfter, validBefore |-> validBefore, nonce |-> nonce]

\* A signature is the signing key's owner and the digest it signed.
Sign(signer, digest) == [signer |-> signer, digest |-> digest]

\* ECDSA.recover: the signer when the digest is the signed one, else an address
\* that is nobody's.
recoverAnyDigest(digest, signature) == signature.signer

recover(digest, signature) ==
    IF signature.digest = digest THEN signature.signer ELSE NOBODY

\* ERC20._transfer
_transfer(w, from, to, value) ==
    IF from = ZERO THEN Fail(w, "ERC20InvalidSender")
    ELSE IF to = ZERO THEN Fail(w, "ERC20InvalidReceiver")
    ELSE IF w.balances[from] < value THEN Fail(w, "ERC20InsufficientBalance")
    ELSE LET debited == [w.balances EXCEPT ![from] = @ - value]
             credited == [debited EXCEPT ![to] = @ + value]
         IN  Ok([w EXCEPT !.balances = credited])

transferWithAuthorizationLate(w, from, to, value, validAfter, validBefore, nonce, signature) ==
    IF ~(now >= validAfter) THEN Fail(w, "MockUSDC: auth not yet valid")
    ELSE IF ~(now <= validBefore) THEN Fail(w, "MockUSDC: auth expired")
    ELSE IF <<from, nonce>> \in w.authorizationStates
    THEN Fail(w, "MockUSDC: auth already used")
    ELSE LET digest == structHash(from, to, value, validAfter, validBefore, nonce)
             signer == recover(digest, signature)
         IN  IF signer # from THEN Fail(w, "MockUSDC: invalid signature")
             ELSE _transfer([w EXCEPT !.authorizationStates = @ \cup {<<from, nonce>>}],
                            from, to, value)

transferWithAuthorization(w, from, to, value, validAfter, validBefore, nonce, signature) ==
    IF ~(now >= validAfter) THEN Fail(w, "MockUSDC: auth not yet valid")
    ELSE IF ~(now < validBefore) THEN Fail(w, "MockUSDC: auth expired")
    ELSE IF <<from, nonce>> \in w.authorizationStates
    THEN Fail(w, "MockUSDC: auth already used")
    ELSE LET digest == structHash(from, to, value, validAfter, validBefore, nonce)
             signer == recover(digest, signature)
         IN  IF signer # from THEN Fail(w, "MockUSDC: invalid signature")
             ELSE _transfer([w EXCEPT !.authorizationStates = @ \cup {<<from, nonce>>}],
                            from, to, value)

\* --------------------------------------------------------- StealthAnnouncer
announceTwice(w, sender, schemeId, stealthAddress, ephemeralPubKey, metadata) ==
    IF schemeId # SCHEME_ID THEN Fail(w, "StealthAnnouncer: unsupported scheme")
    ELSE IF stealthAddress = ZERO THEN Fail(w, "StealthAnnouncer: zero stealth address")
    ELSE IF ~(ephemeralPubKey.len = 33 \/ ephemeralPubKey.len = 65)
    THEN Fail(w, "StealthAnnouncer: invalid ephemeral key length")
    ELSE Ok([w EXCEPT
            !.announced = @ \cup {stealthAddress},
            !.announcementCount = @ + 1,
            !.announcements = Append(@,
                [schemeId |-> schemeId, stealthAddress |-> stealthAddress,
                 caller |-> sender, ephemeralPubKey |-> ephemeralPubKey,
                 metadata |-> metadata])])

announce(w, sender, schemeId, stealthAddress, ephemeralPubKey, metadata) ==
    IF schemeId # SCHEME_ID THEN Fail(w, "StealthAnnouncer: unsupported scheme")
    ELSE IF stealthAddress = ZERO THEN Fail(w, "StealthAnnouncer: zero stealth address")
    ELSE IF ~(ephemeralPubKey.len = 33 \/ ephemeralPubKey.len = 65)
    THEN Fail(w, "StealthAnnouncer: invalid ephemeral key length")
    ELSE IF stealthAddress \in w.announced
    THEN Fail(w, "StealthAnnouncer: already announced")
    ELSE Ok([w EXCEPT
            !.announced = @ \cup {stealthAddress},
            !.announcementCount = @ + 1,
            !.announcements = Append(@,
                [schemeId |-> schemeId, stealthAddress |-> stealthAddress,
                 caller |-> sender, ephemeralPubKey |-> ephemeralPubKey,
                 metadata |-> metadata])])

\* ------------------------------------------------------- StealthMetaRegistry
NO_META == [len |-> 0, id |-> ""]
KeySchemes == {1, 2}

\* EIP-712 struct hash of RegisterKeys(registrant, schemeId, stealthMetaAddress, nonce)
registerKeysHash(registrant, schemeId, stealthMetaAddress, nonce) ==
    [registrant |-> registrant, schemeId |-> schemeId,
     stealthMetaAddress |-> stealthMetaAddress.id, nonce |-> nonce]

\* the checks of registerKeysOnBehalf; the writes are nonces[registrant] =
\* currentNonce + 1 and _stealthMetaAddresses[registrant][schemeId] = ...
registerKeysOnBehalfAnyNonce(w, registrant, schemeId, stealthMetaAddress, signature) ==
    IF registrant = ZERO THEN Fail(w, "StealthMetaRegistry: zero registrant")
    ELSE IF ~(stealthMetaAddress.len > 0) THEN Fail(w, "StealthMetaRegistry: empty meta-address")
    ELSE IF ~(schemeId > 0) THEN Fail(w, "StealthMetaRegistry: invalid scheme")
    ELSE IF signature.signer # registrant THEN Fail(w, "StealthMetaRegistry: invalid signature")
    ELSE Ok(w)

registerKeysOnBehalf(w, registrant, schemeId, stealthMetaAddress, signature) ==
    IF registrant = ZERO THEN Fail(w, "StealthMetaRegistry: zero registrant")
    ELSE IF ~(stealthMetaAddress.len > 0) THEN Fail(w, "StealthMetaRegistry: empty meta-address")
    ELSE IF ~(schemeId > 0) THEN Fail(w, "StealthMetaRegistry: invalid scheme")
    ELSE LET currentNonce == nonces[registrant]
             digest == registerKeysHash(registrant, schemeId, stealthMetaAddress, currentNonce)
             signer == recover(digest, signature)
         IN  IF signer # registrant THEN Fail(w, "StealthMetaRegistry: invalid signature")
             ELSE Ok(w)

\* registerKeys: the caller's own meta-address
registerKeys(w, schemeId, stealthMetaAddress) ==
    IF ~(stealthMetaAddress.len > 0) THEN Fail(w, "StealthMetaRegistry: empty meta-address")
    ELSE IF ~(schemeId > 0) THEN Fail(w, "StealthMetaRegistry: invalid scheme")
    ELSE Ok(w)

\* ----------------------------------------------------------- ComplianceGate
checkComplianceNeverExpires(agent) ==
    IF ~complianceRequired THEN TRUE
    ELSE IF agent \notin isCompliant THEN FALSE
    ELSE TRUE

checkCompliance(agent) ==
    IF ~complianceRequired THEN TRUE
    ELSE IF agent \notin isCompliant THEN FALSE
    ELSE IF now > verifiedAt[agent] + complianceExpiry THEN FALSE
    ELSE TRUE

\* ------------------------------------------------------------ AgentRegistry
NoAgent ==
    [owner |-> ZERO, dailySpendLimit |-> 0, spentToday |-> 0,
     lastResetTimestamp |-> 0, reputationScore |-> 0, totalTransactions |-> 0,
     totalVolume |-> 0, isActive |-> FALSE, registeredAt |-> 0]

isRegisteredOnceRegistered(w, agent) == w.agents[agent].owner # ZERO

isRegistered(w, agent) == w.agents[agent].isActive

\* a.spentToday += amount; a.totalTransactions++; a.totalVolume += amount
updateStatsForgetsSpend(a, amount) ==
    [a EXCEPT !.totalTransactions = @ + 1, !.totalVolume = @ + amount]

updateStats(a, amount) ==
    [a EXCEPT !.spentToday = @ + amount,
              !.totalTransactions = @ + 1,
              !.totalVolume = @ + amount]

\* modifier onlyRouter
onlyRouterOpenToAll(w, sender, body) == body

onlyRouter(w, sender, body) ==
    IF sender # ROUTER THEN Fail(w, "AgentRegistry: caller is not router") ELSE body

\* if (block.timestamp >= a.lastResetTimestamp + ONE_DAY) { spentToday = 0; ... }
resetIfNewDayLate(a) ==
    IF now > a.lastResetTimestamp + ONE_DAY
    THEN [a EXCEPT !.spentToday = 0, !.lastResetTimestamp = now]
    ELSE a

resetIfNewDay(a) ==
    IF now >= a.lastResetTimestamp + ONE_DAY
    THEN [a EXCEPT !.spentToday = 0, !.lastResetTimestamp = now]
    ELSE a

\* a.spentToday + amount <= a.dailySpendLimit
withinLimitByOne(a, amount) == a.spentToday + amount <= a.dailySpendLimit + 1

withinLimit(a, amount) == a.spentToday + amount <= a.dailySpendLimit

\* the automatic reputation update at every tenth transaction
autoReputationUncapped(a) ==
    IF a.totalTransactions % 10 = 0 /\ a.reputationScore < MAX_REPUTATION
    THEN [a EXCEPT !.reputationScore = @ + 10]
    ELSE a

autoReputation(a) ==
    IF a.totalTransactions % 10 = 0 /\ a.reputationScore < MAX_REPUTATION
    THEN [a EXCEPT !.reputationScore =
            IF @ + 10 > MAX_REPUTATION THEN MAX_REPUTATION ELSE @ + 10]
    ELSE a

recordTransaction(w, sender, agent, amount) ==
    onlyRouter(w, sender,
        IF ~w.agents[agent].isActive THEN Fail(w, "AgentRegistry: agent not active")
        ELSE LET a1 == resetIfNewDay(w.agents[agent]) IN
             IF ~withinLimit(a1, amount)
             THEN Fail(w, "AgentRegistry: daily limit exceeded")
             ELSE Ok([w EXCEPT !.agents[agent] = autoReputation(updateStats(a1, amount))]))

\* ------------------------------------------------------- StealthPaymentRouter
\* X402Lib.calculateFee
calculateFeeRoundsUp(amount, feeBps) == (amount * feeBps + 9999) \div 10000

calculateFee(amount, feeBps) == (amount * feeBps) \div 10000

\* processed[params.nonce] = true
markProcessedForgets(w, nonce) == w

markProcessed(w, nonce) == [w EXCEPT !.processed = @ \cup {nonce}]

\* if (fee > 0) usdc.safeTransfer(feeVault, fee)
sendFeeKeepsIt(w, fee) == Ok(w)

sendFee(w, fee) == IF fee > 0 THEN _transfer(w, ROUTER, FEE_VAULT, fee) ELSE Ok(w)

\* announcer.announce(1, stealthAddress, ephemeralPubKey, abi.encodePacked(viewTag))
announcePaymentSkipped(w, params) == Ok(w)

announcePayment(w, params) ==
    announce(w, ROUTER, 1, params.stealthAddress, params.ephemeralPubKey,
             <<params.viewTag>>)

\* params.ephemeralPubKey.length == 33 || params.ephemeralPubKey.length == 65
validKeyLengthAny(key) == TRUE

validKeyLength(key) == key.len = 33 \/ key.len = 65

_processPayment(w, params) ==
    IF params.nonce \in w.processed THEN Fail(w, "Router: already processed")
    ELSE IF params.stealthAddress = ZERO THEN Fail(w, "Router: zero stealth address")
    ELSE IF ~(params.amount > 0) THEN Fail(w, "Router: zero amount")
    ELSE IF ~validKeyLength(params.ephemeralPubKey)
    THEN Fail(w, "Router: invalid ephemeral key length")
    ELSE
    LET burned == markProcessed(w, params.nonce) IN
    IF COMPLIANCE_GATE # ZERO /\ ~checkCompliance(params.from)
    THEN Fail(burned, "Router: compliance check failed")
    ELSE
    LET recorded == IF AGENT_REGISTRY # ZERO /\ isRegistered(burned, params.from)
                    THEN recordTransaction(burned, ROUTER, params.from, params.amount)
                    ELSE Ok(burned) IN
    IF ~recorded.ok THEN recorded
    ELSE
    LET pulled == transferWithAuthorization(recorded.w, params.from, ROUTER,
                      params.amount, params.validAfter, params.validBefore,
                      params.nonce, params.signature) IN
    \* a failed low-level call undoes the token's own changes and returns false,
    \* with the token's revert reason as return data
    IF ~pulled.ok
    THEN [Fail(recorded.w, "Router: transferWithAuthorization failed")
             EXCEPT !.cause = pulled.reason]
    ELSE
    LET fee == calculateFee(params.amount, platformFeeBps)
        recipientAmount == params.amount - fee
        feeSent == sendFee(pulled.w, fee) IN
    IF ~feeSent.ok THEN feeSent
    ELSE
    LET paid == _transfer(feeSent.w, ROUTER, params.stealthAddress, recipientAmount) IN
    IF ~paid.ok THEN paid
    ELSE
    LET told == announcePayment(paid.w, params) IN
    IF ~told.ok THEN told
    ELSE
    [ok |-> TRUE, reason |-> "", cause |-> "", failedAt |-> 0,
     w |-> [told.w EXCEPT !.paymentLog = Append(@,
                [from |-> params.from, stealthAddress |-> params.stealthAddress,
                 amount |-> params.amount, fee |-> fee, nonce |-> params.nonce])],
     amount |-> params.amount, fee |-> fee]

\* modifier whenNotPaused
whenNotPausedIgnored(w, body) == body

whenNotPaused(w, body) == IF paused THEN Fail(w, "EnforcedPause") ELSE body

processPayment(w, params) == whenNotPaused(w, _processPayment(w, params))

\* the for loop of batchProcessPayments, from item i on
RECURSIVE batchLoop(_, _, _, _, _)
batchLoop(w, params, i, totalAmount, totalFees) ==
    IF ~(i <= Len(params))
    THEN [ok |-> TRUE, reason |-> "", cause |-> "", w |-> w, amount |-> totalAmount,
          fee |-> totalFees, failedAt |-> 0]
    ELSE LET r == _processPayment(w, params[i]) IN
         IF ~r.ok THEN [r EXCEPT !.failedAt = i]
         ELSE batchLoop(r.w, params, i + 1, totalAmount + r.amount, totalFees + r.fee)

batchProcessPaymentsOffByOne(w, params) ==
    whenNotPaused(w,
        IF ~(Len(params) > 0) THEN Fail(w, "Router: empty batch")
        ELSE IF ~(Len(params) < MAX_BATCH) THEN Fail(w, "Router: batch too large")
        ELSE batchLoop(w, params, 1, 0, 0))

batchProcessPayments(w, params) ==
    whenNotPaused(w,
        IF ~(Len(params) > 0) THEN Fail(w, "Router: empty batch")
        ELSE IF ~(Len(params) <= MAX_BATCH) THEN Fail(w, "Router: batch too large")
        ELSE batchLoop(w, params, 1, 0, 0))

\* --------------------------------------------------------------- transactions
\* A call that fails a require reverts the transaction: every state change and
\* every event of it is undone.
TransactKeepsPartial(w, r) == r.w

Transact(w, r) == IF r.ok THEN r.w ELSE w

\* Every variable but the two that record the latest transaction.
Snapshot ==
    [now |-> now, balances |-> balances, authorizationStates |-> authorizationStates,
     processed |-> processed, platformFeeBps |-> platformFeeBps, paused |-> paused,
     approvedFacilitators |-> approvedFacilitators, gateway |-> gateway,
     announced |-> announced, announcementCount |-> announcementCount,
     announcements |-> announcements, agents |-> agents,
     complianceRequired |-> complianceRequired, isCompliant |-> isCompliant,
     verifiedAt |-> verifiedAt, complianceExpiry |-> complianceExpiry,
     vaultShares |-> vaultShares, approvals |-> approvals,
     nonces |-> nonces, stealthMetaAddresses |-> stealthMetaAddresses,
     messages |-> messages, processedMessages |-> processedMessages,
     totalSent |-> totalSent, totalReceived |-> totalReceived,
     registrationFee |-> registrationFee, paymentLog |-> paymentLog]

NoBatch == <<>>

\* What a transaction leaves behind for an observer: its status and revert reason,
\* the events it emitted, and (from its execution trace) the item it failed at and
\* the nonces it had marked processed when it ended.
Receipt(op, caller, arg, r, events, batch) ==
    [op |-> op, caller |-> caller, arg |-> arg, ok |-> r.ok, reason |-> r.reason,
     cause |-> r.cause, failedAt |-> r.failedAt, marked |-> r.w.processed \ processed,
     events |-> events, batch |-> batch]

Record(rcpt) == receipt' = rcpt /\ before' = Snapshot

Commit(w) ==
    /\ balances' = w.balances
    /\ authorizationStates' = w.authorizationStates
    /\ processed' = w.processed
    /\ announced' = w.announced
    /\ announcementCount' = w.announcementCount
    /\ announcements' = w.announcements
    /\ agents' = w.agents
    /\ paymentLog' = w.paymentLog

Emitted(w) == SubSeq(w.paymentLog, Len(paymentLog) + 1, Len(w.paymentLog))

ProcessPayment(caller, params) ==
    LET r == processPayment(World, params)
        w == Transact(World, r)
    IN  /\ Commit(w)
        /\ Record(Receipt("processPayment", caller, 0, r, Emitted(w), NoBatch))
        /\ UNCHANGED <<gateway, approvedFacilitators, messages, processedMessages, totalSent, totalReceived, nonces, stealthMetaAddresses, vaultShares, approvals, complianceExpiry, registrationFee, now, platformFeeBps, paused, complianceRequired, isCompliant, verifiedAt>>

BatchProcessPayments(caller, params) ==
    LET r == batchProcessPayments(World, params)
        w == Transact(World, r)
    IN  /\ Commit(w)
        /\ Record(Receipt("batchProcessPayments", caller, 0, r, Emitted(w),
                              IF r.ok THEN <<Len(params), r.amount, r.fee>> ELSE NoBatch))
        /\ UNCHANGED <<gateway, approvedFacilitators, messages, processedMessages, totalSent, totalReceived, nonces, stealthMetaAddresses, vaultShares, approvals, complianceExpiry, registrationFee, now, platformFeeBps, paused, complianceRequired, isCompliant, verifiedAt>>

\* modifier onlyOwner
onlyOwner(caller, body) ==
    IF caller # OWNER THEN Fail(World, "OwnableUnauthorizedAccount") ELSE body

setFeeUncapped(caller, newFeeBps) == onlyOwner(caller, Ok(World))

setFee(caller, newFeeBps) ==
    onlyOwner(caller,
        IF ~(newFeeBps <= MAX_FEE) THEN Fail(World, "Router: fee exceeds max")
        ELSE Ok(World))

SetFee(caller, newFeeBps) ==
    LET r == setFee(caller, newFeeBps) IN
    /\ platformFeeBps' = IF r.ok THEN newFeeBps ELSE platformFeeBps
    /\ Record(Receipt("setFee", caller, newFeeBps, r, <<>>, NoBatch))
    /\ UNCHANGED <<gateway, approvedFacilitators, messages, processedMessages, totalSent, totalReceived, nonces, stealthMetaAddresses, vaultShares, approvals, complianceExpiry, registrationFee, now, balances, authorizationStates, processed, paused, announced,
                   announcementCount, announcements, agents, complianceRequired,
                   isCompliant, verifiedAt, paymentLog>>

pause(caller) ==
    onlyOwner(caller, IF paused THEN Fail(World, "EnforcedPause") ELSE Ok(World))

unpause(caller) ==
    onlyOwner(caller, IF ~paused THEN Fail(World, "ExpectedPause") ELSE Ok(World))

Pause(caller) ==
    LET r == pause(caller) IN
    /\ paused' = IF r.ok THEN TRUE ELSE paused
    /\ Record(Receipt("pause", caller, 0, r, <<>>, NoBatch))
    /\ UNCHANGED <<gateway, approvedFacilitators, messages, processedMessages, totalSent, totalReceived, nonces, stealthMetaAddresses, vaultShares, approvals, complianceExpiry, registrationFee, now, balances, authorizationStates, processed, platformFeeBps,
                   announced, announcementCount, announcements, agents,
                   complianceRequired, isCompliant, verifiedAt, paymentLog>>

Unpause(caller) ==
    LET r == unpause(caller) IN
    /\ paused' = IF r.ok THEN FALSE ELSE paused
    /\ Record(Receipt("unpause", caller, 0, r, <<>>, NoBatch))
    /\ UNCHANGED <<gateway, approvedFacilitators, messages, processedMessages, totalSent, totalReceived, nonces, stealthMetaAddresses, vaultShares, approvals, complianceExpiry, registrationFee, now, balances, authorizationStates, processed, platformFeeBps,
                   announced, announcementCount, announcements, agents,
                   complianceRequired, isCompliant, verifiedAt, paymentLog>>

\* MockUSDC.transferWithAuthorization called directly, with the router as payee
TransferWithAuthorization(caller, p) ==
    LET r == transferWithAuthorization(World, p.from, ROUTER, p.amount, p.validAfter,
                                       p.validBefore, p.nonce, p.signature)
        w == Transact(World, r)
    IN  /\ balances' = w.balances
        /\ authorizationStates' = w.authorizationStates
        /\ Record(Receipt("transferWithAuthorization", caller, 0, r, <<>>, NoBatch))
        /\ UNCHANGED <<gateway, approvedFacilitators, messages, processedMessages, totalSent, totalReceived, nonces, stealthMetaAddresses, vaultShares, approvals, complianceExpiry, registrationFee, now, processed, platformFeeBps, paused, announced,
                       announcementCount, announcements, agents, complianceRequired,
                       isCompliant, verifiedAt, paymentLog>>

\* StealthAnnouncer.announce called directly
Announce(caller, schemeId, stealthAddress, ephemeralPubKey, metadata) ==
    LET r == announce(World, caller, schemeId, stealthAddress, ephemeralPubKey, metadata)
        w == Transact(World, r)
    IN  /\ announced' = w.announced
        /\ announcementCount' = w.announcementCount
        /\ announcements' = w.announcements
        /\ Record(Receipt("announce", caller,
                          [schemeId |-> schemeId, stealthAddress |-> stealthAddress,
                           ephemeralPubKey |-> ephemeralPubKey, metadata |-> metadata],
                          r, <<>>, NoBatch))
        /\ UNCHANGED <<gateway, approvedFacilitators, messages, processedMessages, totalSent, totalReceived, nonces, stealthMetaAddresses, vaultShares, approvals, complianceExpiry, registrationFee, now, balances, authorizationStates, processed,
                       platformFeeBps, paused, agents, complianceRequired, isCompliant,
                       verifiedAt, paymentLog>>

\* AgentRegistry.registerAgent (msg.value is `value`)
registerAgentWhileActive(caller, value) ==
    IF ~(value >= registrationFee) THEN Fail(World, "AgentRegistry: insufficient fee")
    ELSE Ok([World EXCEPT !.agents[caller] =
            [owner |-> caller, dailySpendLimit |-> DEFAULT_DAILY_LIMIT, spentToday |-> 0,
             lastResetTimestamp |-> now, reputationScore |-> INITIAL_REPUTATION,
             totalTransactions |-> 0, totalVolume |-> 0, isActive |-> TRUE,
             registeredAt |-> now]])

registerAgent(caller, value) ==
    IF agents[caller].isActive THEN Fail(World, "AgentRegistry: already registered")
    ELSE IF ~(value >= registrationFee) THEN Fail(World, "AgentRegistry: insufficient fee")
    ELSE Ok([World EXCEPT !.agents[caller] =
            [owner |-> caller, dailySpendLimit |-> DEFAULT_DAILY_LIMIT, spentToday |-> 0,
             lastResetTimestamp |-> now, reputationScore |-> INITIAL_REPUTATION,
             totalTransactions |-> 0, totalVolume |-> 0, isActive |-> TRUE,
             registeredAt |-> now]])

setDailyLimit(caller, newLimit) ==
    IF ~agents[caller].isActive THEN Fail(World, "AgentRegistry: not registered")
    ELSE IF ~(newLimit > 0) THEN Fail(World, "AgentRegistry: zero limit")
    ELSE Ok([World EXCEPT !.agents[caller].dailySpendLimit = newLimit])

RegistryCall(op, caller, arg, r) ==
    /\ agents' = Transact(World, r).agents
    /\ Record(Receipt(op, caller, arg, r, <<>>, NoBatch))
    /\ UNCHANGED <<gateway, approvedFacilitators, messages, processedMessages, totalSent, totalReceived, nonces, stealthMetaAddresses, vaultShares, approvals, complianceExpiry, registrationFee, now, balances, authorizationStates, processed, platformFeeBps, paused,
                   announced, announcementCount, announcements, complianceRequired,
                   isCompliant, verifiedAt, paymentLog>>

RegisterAgent(caller) == RegistryCall("registerAgent", caller, 0, registerAgent(caller, 0))

SetDailyLimit(caller, newLimit) ==
    RegistryCall("setDailyLimit", caller, newLimit, setDailyLimit(caller, newLimit))

RegisterAgentPaying(caller, value) ==
    RegistryCall("registerAgent", caller, value, registerAgent(caller, value))

\* AgentRegistry.recordTransaction called directly
RecordTransaction(sender, agent, amount) ==
    RegistryCall("recordTransaction", sender, [agent |-> agent, amount |-> amount],
                 recordTransaction(World, sender, agent, amount))

updateReputation(caller, agent, score) ==
    onlyOwner(caller,
        IF ~(score <= MAX_REPUTATION) THEN Fail(World, "AgentRegistry: score exceeds max")
        ELSE IF ~agents[agent].isActive THEN Fail(World, "AgentRegistry: agent not active")
        ELSE Ok([World EXCEPT !.agents[agent].reputationScore = score]))

UpdateReputation(caller, agent, score) ==
    RegistryCall("updateReputation", caller, [agent |-> agent, score |-> score],
                 updateReputation(caller, agent, score))

deactivateAgent(caller, agent) ==
    onlyOwner(caller,
        IF ~agents[agent].isActive THEN Fail(World, "AgentRegistry: already inactive")
        ELSE Ok([World EXCEPT !.agents[agent].isActive = FALSE]))

DeactivateAgent(caller, agent) ==
    RegistryCall("deactivateAgent", caller, [agent |-> agent],
                 deactivateAgent(caller, agent))

\* AgentRegistry.setRegistrationFee
SetRegistrationFee(caller, fee) ==
    LET r == onlyOwner(caller, Ok(World)) IN
    /\ registrationFee' = IF r.ok THEN fee ELSE registrationFee
    /\ Record(Receipt("setRegistrationFee", caller, fee, r, <<>>, NoBatch))
    /\ UNCHANGED <<gateway, approvedFacilitators, messages, processedMessages, totalSent, totalReceived, nonces, stealthMetaAddresses, vaultShares, approvals, complianceExpiry, now, balances, authorizationStates, processed, platformFeeBps, paused,
                   announced, announcementCount, announcements, agents,
                   complianceRequired, isCompliant, verifiedAt, paymentLog>>

\* ComplianceGate.setComplianceRequired
SetComplianceRequired(caller, required) ==
    LET r == onlyOwner(caller, Ok(World)) IN
    /\ complianceRequired' = IF r.ok THEN required ELSE complianceRequired
    /\ Record(Receipt("setComplianceRequired", caller, 0, r, <<>>, NoBatch))
    /\ UNCHANGED <<gateway, approvedFacilitators, messages, processedMessages, totalSent, totalReceived, nonces, stealthMetaAddresses, vaultShares, approvals, complianceExpiry, registrationFee, now, balances, authorizationStates, processed, platformFeeBps, paused,
                   announced, announcementCount, announcements, agents, isCompliant,
                   verifiedAt, paymentLog>>

\* ComplianceGate.setCompliance
SetCompliance(caller, agent, status) ==
    LET r == onlyOwner(caller, Ok(World)) IN
    /\ isCompliant' = IF ~r.ok THEN isCompliant
                      ELSE IF status THEN isCompliant \cup {agent}
                      ELSE isCompliant \ {agent}
    /\ verifiedAt' = IF r.ok /\ status THEN [verifiedAt EXCEPT ![agent] = now]
                     ELSE verifiedAt
    /\ Record(Receipt("setCompliance", caller, 0, r, <<>>, NoBatch))
    /\ UNCHANGED <<gateway, approvedFacilitators, messages, processedMessages, totalSent, totalReceived, nonces, stealthMetaAddresses, vaultShares, approvals, complianceExpiry, registrationFee, now, balances, authorizationStates, processed, platformFeeBps, paused,
                   announced, announcementCount, announcements, agents,
                   complianceRequired, paymentLog>>

\* ComplianceGate.setComplianceExpiry
setComplianceExpiry(caller, expiry) ==
    onlyOwner(caller,
        IF ~(expiry >= ONE_DAY) THEN Fail(World, "ComplianceGate: expiry too short")
        ELSE Ok(World))

SetComplianceExpiry(caller, expiry) ==
    LET r == setComplianceExpiry(caller, expiry) IN
    /\ complianceExpiry' = IF r.ok THEN expiry ELSE complianceExpiry
    /\ Record(Receipt("setComplianceExpiry", caller, expiry, r, <<>>, NoBatch))
    /\ UNCHANGED <<gateway, approvedFacilitators, messages, processedMessages, totalSent, totalReceived, nonces, stealthMetaAddresses, vaultShares, approvals, registrationFee, now, balances, authorizationStates, processed,
                   platformFeeBps, paused, announced, announcementCount, announcements,
                   agents, complianceRequired, isCompliant, verifiedAt, paymentLog>>

\* ComplianceGate.verifyCompliance with no verifier set: any caller, any proof
\* that is not empty
verifyCompliance(caller, agent, proofLength) ==
    IF agent = ZERO THEN Fail(World, "ComplianceGate: zero agent")
    ELSE IF ~(proofLength > 0) THEN Fail(World, "ComplianceGate: empty proof")
    ELSE Ok(World)

VerifyCompliance(caller, agent, proofLength) ==
    LET r == verifyCompliance(caller, agent, proofLength) IN
    /\ isCompliant' = IF r.ok THEN isCompliant \cup {agent} ELSE isCompliant
    /\ verifiedAt' = IF r.ok THEN [verifiedAt EXCEPT ![agent] = now] ELSE verifiedAt
    /\ Record(Receipt("verifyCompliance", caller, agent, r, <<>>, NoBatch))
    /\ UNCHANGED <<gateway, approvedFacilitators, messages, processedMessages, totalSent, totalReceived, nonces, stealthMetaAddresses, vaultShares, approvals, complianceExpiry, registrationFee, now, balances, authorizationStates,
                   processed, platformFeeBps, paused, announced, announcementCount,
                   announcements, agents, complianceRequired, paymentLog>>

\* A day passes between two blocks.
Tick ==
    /\ now + ONE_DAY <= MaxDays * ONE_DAY
    /\ now' = now + ONE_DAY
    /\ Record(Receipt("timePasses", ZERO, 0, Ok(World), <<>>, NoBatch))
    /\ UNCHANGED <<gateway, approvedFacilitators, messages, processedMessages, totalSent, totalReceived, nonces, stealthMetaAddresses, vaultShares, approvals, complianceExpiry, registrationFee, balances, authorizationStates, processed, platformFeeBps, paused,
                   announced, announcementCount, announcements, agents,
                   complianceRequired, isCompliant, verifiedAt, paymentLog>>

\* Less than a day, or a day, passes between two blocks.
Advance(d) ==
    /\ now + d <= MaxDays * ONE_DAY
    /\ now' = now + d
    /\ Record(Receipt("timePasses", ZERO, d, Ok(World), <<>>, NoBatch))
    /\ UNCHANGED <<gateway, approvedFacilitators, messages, processedMessages, totalSent, totalReceived, nonces, stealthMetaAddresses, vaultShares, approvals, complianceExpiry, registrationFee, balances, authorizationStates, processed,
                   platformFeeBps, paused, announced, announcementCount, announcements,
                   agents, complianceRequired, isCompliant, verifiedAt, paymentLog>>

\* ------------------------------------------------ StealthMetaRegistry calls
KeysCall(op, caller, arg, r, used) ==
    /\ nonces' = IF r.ok THEN [nonces EXCEPT ![arg.registrant] = @ + used] ELSE nonces
    /\ stealthMetaAddresses' =
          IF r.ok THEN [stealthMetaAddresses EXCEPT
                           ![<<arg.registrant, arg.schemeId>>] = arg.stealthMetaAddress]
          ELSE stealthMetaAddresses
    /\ Record(Receipt(op, caller, arg, r, <<>>, NoBatch))
    /\ UNCHANGED <<gateway, approvedFacilitators, messages, processedMessages, totalSent, totalReceived, vaultShares, approvals, complianceExpiry, registrationFee, now,
                   balances, authorizationStates, processed, platformFeeBps, paused,
                   announced, announcementCount, announcements, agents,
                   complianceRequired, isCompliant, verifiedAt, paymentLog>>

RegisterKeys(caller, schemeId, stealthMetaAddress) ==
    KeysCall("registerKeys", caller,
             [registrant |-> caller, schemeId |-> schemeId,
              stealthMetaAddress |-> stealthMetaAddress, signature |-> Sign(ZERO, 0)],
             registerKeys(World, schemeId, stealthMetaAddress), 0)

RegisterKeysOnBehalf(caller, registrant, schemeId, stealthMetaAddress, signature) ==
    KeysCall("registerKeysOnBehalf", caller,
             [registrant |-> registrant, schemeId |-> schemeId,
              stealthMetaAddress |-> stealthMetaAddress, signature |-> signature],
             registerKeysOnBehalf(World, registrant, schemeId, stealthMetaAddress, signature),
             1)

\* ------------------------------------------------------------------- FeeVault
\* ERC4626.totalAssets: the vault's balance of the asset
totalAssets == balances[FEE_VAULT]

\* ERC20.totalSupply of the vault's shares
totalSupply == vaultShares["alice"] + vaultShares["bob"]

\* Math.mulDiv(x, y, denominator, rounding)
mulDiv(x, y, denominator, roundUp) ==
    IF roundUp THEN (x * y + denominator - 1) \div denominator
    ELSE (x * y) \div denominator

\* ERC4626._convertToShares and _convertToAssets, with _decimalsOffset() = 0
_convertToShares(assets, roundUp) == mulDiv(assets, totalSupply + 1, totalAssets + 1, roundUp)

_convertToAssets(shares, roundUp) == mulDiv(shares, totalAssets + 1, totalSupply + 1, roundUp)

\* SafeERC20.safeTransferFrom(asset, from, to, value) called by `to`
safeTransferFrom(w, from, to, value) ==
    IF value > 0 /\ <<from, to>> \notin approvals
    THEN Fail(w, "ERC20InsufficientAllowance")
    ELSE _transfer(w, from, to, value)

\* ERC4626._deposit: pull the assets, then mint the shares
_deposit(caller, receiver, assets, shares) ==
    LET pulled == safeTransferFrom(World, caller, FEE_VAULT, assets) IN
    IF ~pulled.ok THEN pulled
    ELSE IF receiver = ZERO THEN Fail(World, "ERC20InvalidReceiver")
    ELSE pulled

\* ERC4626._withdraw: spend the caller's share allowance (none is ever given),
\* burn the shares, then send the assets
_withdraw(caller, receiver, owner, assets, shares) ==
    IF caller # owner /\ shares > 0 THEN Fail(World, "ERC20InsufficientAllowance")
    ELSE IF vaultShares[owner] < shares THEN Fail(World, "ERC20InsufficientBalance")
    ELSE _transfer(World, FEE_VAULT, receiver, assets)

VaultCall(op, caller, arg, r, holder, sharesDelta) ==
    /\ balances' = Transact(World, r).balances
    /\ vaultShares' = IF r.ok THEN [vaultShares EXCEPT ![holder] = @ + sharesDelta]
                      ELSE vaultShares
    /\ Record(Receipt(op, caller, arg, r, <<>>, NoBatch))
    /\ UNCHANGED <<gateway, approvedFacilitators, messages, processedMessages, totalSent, totalReceived, nonces, stealthMetaAddresses, approvals, complianceExpiry, registrationFee, now,
                   authorizationStates, processed, platformFeeBps, paused, announced,
                   announcementCount, announcements, agents, complianceRequired,
                   isCompliant, verifiedAt, paymentLog>>

\* ERC4626.deposit(assets, receiver)
Deposit(caller, assets, receiver) ==
    LET shares == _convertToShares(assets, FALSE) IN
    VaultCall("deposit", caller, [assets |-> assets, shares |-> shares],
              _deposit(caller, receiver, assets, shares), receiver, shares)

\* ERC4626.mint(shares, receiver)
Mint(caller, shares, receiver) ==
    LET assets == _convertToAssets(shares, TRUE) IN
    VaultCall("mint", caller, [assets |-> assets, shares |-> shares],
              _deposit(caller, receiver, assets, shares), receiver, shares)

\* ERC4626.withdraw(assets, receiver, owner)
withdraw(caller, assets, receiver, owner) ==
    IF assets > _convertToAssets(vaultShares[owner], FALSE)
    THEN Fail(World, "ERC4626ExceededMaxWithdraw")
    ELSE _withdraw(caller, receiver, owner, assets, _convertToShares(assets, TRUE))

Withdraw(caller, assets, receiver, owner) ==
    LET shares == _convertToShares(assets, TRUE) IN
    VaultCall("withdraw", caller, [assets |-> assets, shares |-> shares, owner |-> owner],
              withdraw(caller, assets, receiver, owner), owner, 0 - shares)

\* ERC4626.redeem(shares, receiver, owner)
redeem(caller, shares, receiver, owner) ==
    IF shares > vaultShares[owner] THEN Fail(World, "ERC4626ExceededMaxRedeem")
    ELSE _withdraw(caller, receiver, owner, _convertToAssets(shares, FALSE), shares)

Redeem4626(caller, shares, receiver, owner) ==
    LET assets == _convertToAssets(shares, FALSE) IN
    VaultCall("redeem", caller, [assets |-> assets, shares |-> shares, owner |-> owner],
              redeem(caller, shares, receiver, owner), owner, 0 - shares)

\* FeeVault.withdrawToTreasury
withdrawToTreasuryByAnyone(caller, amount) ==
    IF ~(amount > 0) THEN Fail(World, "FeeVault: zero amount")
    ELSE IF ~(amount <= totalAssets) THEN Fail(World, "FeeVault: insufficient assets")
    ELSE _transfer(World, FEE_VAULT, TREASURY, amount)

withdrawToTreasury(caller, amount) ==
    onlyOwner(caller,
        IF ~(amount > 0) THEN Fail(World, "FeeVault: zero amount")
        ELSE IF ~(amount <= totalAssets) THEN Fail(World, "FeeVault: insufficient assets")
        ELSE _transfer(World, FEE_VAULT, TREASURY, amount))

WithdrawToTreasury(caller, amount) ==
    VaultCall("withdrawToTreasury", caller, amount, withdrawToTreasury(caller, amount),
              "alice", 0)

\* MockUSDC.approve(spender, type(uint256).max)
Approve(owner, spender) ==
    /\ approvals' = approvals \cup {<<owner, spender>>}
    /\ Record(Receipt("approve", owner, spender, Ok(World), <<>>, NoBatch))
    /\ UNCHANGED <<gateway, approvedFacilitators, messages, processedMessages, totalSent, totalReceived, nonces, stealthMetaAddresses, vaultShares, complianceExpiry, registrationFee, now, balances,
                   authorizationStates, processed, platformFeeBps, paused, announced,
                   announcementCount, announcements, agents, complianceRequired,
                   isCompliant, verifiedAt, paymentLog>>

\* ------------------------------------------------ CrossChainRouter, MockBridge
LOCAL_CHAIN == 31337
REMOTE_CHAIN == 2442

\* remoteRouters: the router's own address for the chain the mock bridge loops
\* back to, nothing for any other chain
remoteRouters(chainId) == IF chainId = REMOTE_CHAIN THEN CROSS_CHAIN_ROUTER ELSE ZERO

\* abi.encode(sender, stealthAddress, amount, ephemeralPubKey, viewTag, chainid)
encodeMessage(sender, stealthAddress, amount, ephemeralPubKey, viewTag, chainId) ==
    [sender |-> sender, stealthAddress |-> stealthAddress, amount |-> amount,
     ephemeralPubKey |-> ephemeralPubKey, viewTag |-> viewTag, sourceChainId |-> chainId]

\* processedMessages[keccak256(message)] = true
markMessageForgets(set, message) == set

markMessage(set, message) == set \cup {message}

\* CrossChainRouter.receiveCrossChainPayment: what it does to the token and the
\* announcer; its own writes are processedMessages and totalReceived
receiveCrossChainPayment(w, sender, message) ==
    IF sender # BRIDGE THEN Fail(w, "CrossChainRouter: caller is not bridge")
    ELSE IF message \in processedMessages
    THEN Fail(w, "CrossChainRouter: already processed")
    ELSE IF ~(w.balances[CROSS_CHAIN_ROUTER] >= message.amount)
    THEN Fail(w, "CrossChainRouter: insufficient balance")
    ELSE LET paid == _transfer(w, CROSS_CHAIN_ROUTER, message.stealthAddress,
                               message.amount) IN
         IF ~paid.ok THEN paid
         ELSE announce(paid.w, CROSS_CHAIN_ROUTER, 1, message.stealthAddress,
                       message.ephemeralPubKey, <<message.viewTag>>)

BridgeState(op, caller, arg, r, w, sent, received, processedNow, messagesNow) ==
    /\ balances' = w.balances
    /\ announced' = w.announced
    /\ announcementCount' = w.announcementCount
    /\ announcements' = w.announcements
    /\ messages' = messagesNow
    /\ processedMessages' = processedNow
    /\ totalSent' = totalSent + sent
    /\ totalReceived' = totalReceived + received
    /\ Record(Receipt(op, caller, arg, r, <<>>, NoBatch))
    /\ UNCHANGED <<gateway, approvedFacilitators, nonces, stealthMetaAddresses, vaultShares, approvals, complianceExpiry,
                   registrationFee, now, authorizationStates, processed, platformFeeBps,
                   paused, agents, complianceRequired, isCompliant, verifiedAt, paymentLog>>

\* receiveCrossChainPayment called directly
ReceiveCrossChainPayment(caller, message) ==
    LET r == receiveCrossChainPayment(World, caller, message)
        w == Transact(World, r)
    IN  BridgeState("receiveCrossChainPayment", caller, message, r, w, 0,
                    IF r.ok THEN 1 ELSE 0,
                    IF r.ok THEN markMessage(processedMessages, message)
                    ELSE processedMessages,
                    messages)

\* MockBridge.bridgeMessage called by anyone
BridgeMessage(caller, destinationAddress, message) ==
    BridgeState("bridgeMessage", caller,
                [destinationAddress |-> destinationAddress, message |-> message],
                Ok(World), World, 0, 0, processedMessages,
                Append(messages, [destinationAddress |-> destinationAddress,
                                  message |-> message]))

\* MockBridge.claimMessage: delivers message `messageIndex` (counted from 0) by
\* calling its destination; a destination that is not the router has no code
claimMessage(w, messageIndex) ==
    IF ~(messageIndex < Len(messages)) THEN Fail(w, "MockBridge: invalid index")
    ELSE LET msg == messages[messageIndex + 1] IN
         IF msg.destinationAddress # CROSS_CHAIN_ROUTER THEN Ok(w)
         ELSE LET delivered == receiveCrossChainPayment(w, BRIDGE, msg.message) IN
              IF ~delivered.ok
              THEN [Fail(w, "MockBridge: delivery failed") EXCEPT !.cause = delivered.reason]
              ELSE delivered

ClaimMessage(caller, messageIndex) ==
    LET r == claimMessage(World, messageIndex)
        w == Transact(World, r)
        toRouter == /\ messageIndex < Len(messages)
                    /\ messages[messageIndex + 1].destinationAddress = CROSS_CHAIN_ROUTER
    IN  BridgeState("claimMessage", caller,
                    [messageIndex |-> messageIndex,
                     delivery |-> IF messageIndex < Len(messages)
                                  THEN <<messages[messageIndex + 1]>> ELSE <<>>],
                    r, w, 0,
                    IF r.ok /\ toRouter THEN 1 ELSE 0,
                    IF r.ok /\ toRouter
                    THEN markMessage(processedMessages, messages[messageIndex + 1].message)
                    ELSE processedMessages,
                    messages)

\* CrossChainRouter.sendCrossChainPayment
sendCrossChainPayment(w, caller, destinationChainId, stealthAddress, amount) ==
    IF stealthAddress = ZERO THEN Fail(w, "CrossChainRouter: zero stealth")
    ELSE IF ~(amount > 0) THEN Fail(w, "CrossChainRouter: zero amount")
    ELSE IF remoteRouters(destinationChainId) = ZERO
    THEN Fail(w, "CrossChainRouter: no remote router")
    ELSE safeTransferFrom(w, caller, CROSS_CHAIN_ROUTER, amount)

SendCrossChainPayment(caller, destinationChainId, stealthAddress, amount, ephemeralPubKey, viewTag) ==
    LET r == sendCrossChainPayment(World, caller, destinationChainId, stealthAddress, amount)
        w == Transact(World, r)
        message == encodeMessage(caller, stealthAddress, amount, ephemeralPubKey,
                                 viewTag, LOCAL_CHAIN)
    IN  BridgeState("sendCrossChainPayment", caller, message, r, w,
                    IF r.ok THEN 1 ELSE 0, 0, processedMessages,
                    IF r.ok
                    THEN Append(messages,
                                [destinationAddress |-> remoteRouters(destinationChainId),
                                 message |-> message])
                    ELSE messages)

\* Time passes while compliance verifications age.
Elapse(d) ==
    /\ now + d <= MaxGateDays * ONE_DAY
    /\ now' = now + d
    /\ Record(Receipt("timePasses", ZERO, d, Ok(World), <<>>, NoBatch))
    /\ UNCHANGED <<gateway, approvedFacilitators, messages, processedMessages, totalSent, totalReceived, nonces, stealthMetaAddresses, vaultShares, approvals, complianceExpiry, registrationFee, balances, authorizationStates,
                   processed, platformFeeBps, paused, announced, announcementCount,
                   announcements, agents, complianceRequired, isCompliant, verifiedAt,
                   paymentLog>>

\* ------------------------------------------------------------------- inputs
FAR == 2 * ONE_DAY
KEY33 == [len |-> 33, id |-> "R1"]
KEY65 == [len |-> 65, id |-> "R2"]
KEY0 == [len |-> 0, id |-> "empty"]
VIEW_TAG == 42

\* The params createPaymentParams builds: signed by `from` for the router.
Signed(from, amount, nonce, validAfter, validBefore, stealthAddress) ==
    [from |-> from, amount |-> amount, nonce |-> nonce, validAfter |-> validAfter,
     validBefore |-> validBefore, stealthAddress |-> stealthAddress,
     ephemeralPubKey |-> KEY33, viewTag |-> VIEW_TAG,
     signature |-> Sign(from, structHash(from, ROUTER, amount, validAfter, validBefore, nonce))]

Other(payer) == IF payer = "alice" THEN "bob" ELSE "alice"

\* Params signed as they are sent, and variants of one of them with one field off.
WellFormed ==
    {Signed("alice", a, n, 0, FAR, s) : a \in {1, 10000}, n \in Nonces, s \in StealthAddrs}
    \cup {Signed("bob", 10000, n, 0, FAR, "s2") : n \in Nonces}

Variants(b) ==
    { [b EXCEPT !.amount = 0],
      [b EXCEPT !.stealthAddress = ZERO],
      [b EXCEPT !.ephemeralPubKey = KEY0],
      [b EXCEPT !.ephemeralPubKey = KEY65],
      [b EXCEPT !.signature = Sign(Other(b.from), structHash(Other(b.from), ROUTER,
                                   b.amount, b.validAfter, b.validBefore, b.nonce))],
      [b EXCEPT !.stealthAddress = ROUTER],
      [b EXCEPT !.stealthAddress = FEE_VAULT],
      [b EXCEPT !.stealthAddress = b.from] }

Params == WellFormed \cup Variants(Signed("alice", 10000, "n2", 0, FAR, "s2"))

BatchItems ==
    { Signed("alice", 10000, "n1", 0, FAR, "s1"),
      Signed("alice", 50, "n1", 0, FAR, "s1"),
      Signed("alice", 50, "n2", 0, FAR, "s2"),
      Signed("bob", 10000, "n2", 0, FAR, "s2"),
      [Signed("alice", 10000, "n2", 0, FAR, "s2") EXCEPT !.ephemeralPubKey = KEY0] }

Batches ==
    {<<>>}
    \cup UNION {[1..n -> BatchItems] : n \in 1..MaxBatchLen}
    \cup {[i \in 1..n |-> Signed("alice", 1, "n1", 0, FAR, "s1")] :
             n \in {MAX_BATCH, MAX_BATCH + 1}}

FeeInputs == {0, DEFAULT_FEE_BPS, MAX_FEE, MAX_FEE + 1}

\* ----------------------------------------------------------------- behaviour
Init ==
    /\ now = 0
    /\ balances = [a \in Accounts |-> IF a \in Payers THEN InitialBalance ELSE 0]
    /\ authorizationStates = {}
    /\ processed = {}
    /\ platformFeeBps = DEFAULT_FEE_BPS
    /\ paused = FALSE
    /\ approvedFacilitators = {}
    /\ gateway = [pc |-> "idle", by |-> "", header |-> NoHeader,
                  options |-> [price |-> "0.01", rpcUrl |-> FALSE, routerAddress |-> FALSE],
                  status |-> 0, calls |-> 0, results |-> <<>>, handled |-> <<>>]
    /\ announced = {}
    /\ announcementCount = 0
    /\ announcements = <<>>
    /\ agents = [a \in Payers |-> NoAgent]
    /\ complianceRequired = FALSE
    /\ isCompliant = {}
    /\ verifiedAt = [a \in Payers |-> 0]
    /\ complianceExpiry = COMPLIANCE_EXPIRY
    /\ vaultShares = [a \in Payers |-> 0]
    /\ approvals = {}
    /\ nonces = [a \in Payers |-> 0]
    /\ stealthMetaAddresses = [k \in Payers \X KeySchemes |-> NO_META]
    /\ messages = <<>>
    /\ processedMessages = {}
    /\ totalSent = 0
    /\ totalReceived = 0
    /\ registrationFee = 0
    /\ paymentLog = <<>>
    /\ receipt = Receipt("constructor", OWNER, 0, Ok(World), <<>>, NoBatch)
    /\ before = Snapshot

Next ==
    \/ \E p \in Params : ProcessPayment(MALLORY, p)
    \/ \E ps \in Batches : BatchProcessPayments(MALLORY, ps)
    \/ \E c \in Callers, x \in FeeInputs : SetFee(c, x)
    \/ \E c \in Callers : Pause(c)
    \/ \E c \in Callers : Unpause(c)

Spec == Init /\ [][Next]_vars

\* Payments of a payer who is rate limited and compliance gated, as time passes.
GatedParams ==
    {Signed("alice", a, "n1", 0, FAR, "s1") : a \in {1, 10000}}
    \cup {Signed("alice", a, "n2", 0, FAR, "s2") : a \in {1, 10000}}
    \cup { Signed("alice", 10000, "n2", 0, FAR, "s1"),
           Signed("alice", 10000, "n2", 0, ONE_DAY, "s2"),
           Signed("alice", 10000, "n2", ONE_DAY, FAR, "s2"),
           Signed("bob", 10000, "n2", 0, FAR, "s2"),
           [Signed("alice", 10000, "n2", 0, FAR, "s2") EXCEPT !.amount = 0],
           [Signed("alice", 10000, "n2", 0, FAR, "s2") EXCEPT !.stealthAddress = ZERO],
           [Signed("alice", 10000, "n2", 0, FAR, "s2") EXCEPT !.ephemeralPubKey = KEY0],
           [Signed("alice", 10000, "n2", 0, FAR, "s2") EXCEPT !.signature =
               Sign("bob", structHash("bob", ROUTER, 10000, 0, FAR, "n2"))] }

GatedBatchItems ==
    { Signed("alice", 10000, "n1", 0, FAR, "s1"),
      Signed("alice", 1, "n2", 0, FAR, "s2"),
      Signed("alice", 10000, "n2", 0, FAR, "s2") }

GatedBatches == UNION {[1..n -> GatedBatchItems] : n \in 1..MaxBatchLen}

LimitInputs == {0, 10000}

NextGated ==
    \/ \E p \in GatedParams : ProcessPayment(MALLORY, p)
    \/ \E ps \in GatedBatches : BatchProcessPayments(MALLORY, ps)
    \/ RegisterAgent("alice")
    \/ \E l \in LimitInputs : SetDailyLimit("alice", l)
    \/ \E c \in Callers, b \in BOOLEAN : SetComplianceRequired(c, b)
    \/ \E c \in Callers, b \in BOOLEAN : SetCompliance(c, "alice", b)
    \/ Tick

SpecGated == Init /\ [][NextGated]_vars

\* The agent ledger on its own: every caller, every function, as time passes.
MaxTx == 10                 \* transactions recorded for one registration
RecordAmounts == {500}
RegistryLimitInputs == {0, 500, 999}
ScoreInputs == {995, MAX_REPUTATION + 1}
ValueInputs == {0, 1}
Steps == {ONE_DAY - 1, ONE_DAY}

NextRegistry ==
    \/ \E v \in ValueInputs : RegisterAgentPaying("alice", v)
    \/ \E c \in {ROUTER, "alice"}, a \in Payers, n \in RecordAmounts :
          /\ agents[a].totalTransactions < MaxTx
          /\ RecordTransaction(c, a, n)
    \/ \E c \in {"alice", "bob"}, l \in RegistryLimitInputs : SetDailyLimit(c, l)
    \/ \E c \in {OWNER, "alice"}, a \in Payers, x \in ScoreInputs : UpdateReputation(c, a, x)
    \/ \E c \in {OWNER, "alice"}, a \in Payers : DeactivateAgent(c, a)
    \/ \E c \in {OWNER, "alice"}, f \in ValueInputs : SetRegistrationFee(c, f)
    \/ \E d \in Steps : Advance(d)

SpecRegistry == Init /\ [][NextRegistry]_vars

\* The router, the token's authorizations and the announcer as anyone may call
\* them: payments with a field changed after signing, announcements by others.
Tampered(b) ==
    LET digest == structHash(b.from, ROUTER, b.amount, b.validAfter, b.validBefore, b.nonce)
    IN  { [b EXCEPT !.signature = Sign(Other(b.from), digest)],
          [b EXCEPT !.signature = Sign(b.from, structHash(b.from, MALLORY, b.amount,
                                        b.validAfter, b.validBefore, b.nonce))],
          [b EXCEPT !.from = Other(b.from)],
          [b EXCEPT !.amount = 1],
          [b EXCEPT !.nonce = "n1"],
          [b EXCEPT !.validAfter = 1],
          [b EXCEPT !.validBefore = ONE_DAY] }

OpenBase == Signed("alice", 10000, "n2", 0, FAR, "s2")

OpenParams ==
    {Signed("alice", 10000, n, 0, FAR, s) : n \in Nonces, s \in StealthAddrs}
    \cup { Signed("bob", 10000, "n1", 0, FAR, "s1"),
           [Signed("alice", 1, "n1", 0, FAR, "s2") EXCEPT
               !.ephemeralPubKey = KEY65, !.viewTag = 7] }
    \cup { Signed("alice", 10000, "n2", 0, ONE_DAY, "s2"),
           Signed("alice", 10000, "n2", ONE_DAY, FAR, "s2") }
    \cup Tampered(OpenBase)

AnnounceInputs ==
    {<<c, SCHEME_ID, s, KEY33>> : c \in {MALLORY, "alice"}, s \in StealthAddrs}
    \cup { <<MALLORY, 2, "s1", KEY33>>, <<MALLORY, SCHEME_ID, ZERO, KEY33>>,
           <<MALLORY, SCHEME_ID, "s1", KEY0>>, <<MALLORY, SCHEME_ID, "s1", KEY65>> }

NextOpen ==
    \/ \E p \in OpenParams : ProcessPayment(MALLORY, p)
    \/ \E p \in OpenParams : TransferWithAuthorization(MALLORY, p)
    \/ \E a \in AnnounceInputs : Announce(a[1], a[2], a[3], a[4], <<VIEW_TAG>>)
    \/ \E d \in Steps : Advance(d)

SpecOpen == Init /\ [][NextOpen]_vars

\* The compliance gate: verifications made, aged, expired and renewed, and the
\* payments of gated payers.
LATE == 4 * ONE_DAY

GateParams ==
    { Signed("alice", 10000, "n1", 0, LATE, "s1"),
      Signed("alice", 1, "n2", 0, LATE, "s2"),
      Signed("bob", 10000, "n2", 0, LATE, "s2") }

ExpiryInputs == {ONE_DAY - 1, ONE_DAY, COMPLIANCE_EXPIRY}
GateSteps == {ONE_DAY, ONE_DAY + 1}

NextCompliance ==
    \/ \E p \in GateParams : ProcessPayment(MALLORY, p)
    \/ \E c \in Callers, b \in BOOLEAN : SetComplianceRequired(c, b)
    \/ \E c \in Callers, a \in Payers, b \in BOOLEAN : SetCompliance(c, a, b)
    \/ \E a \in {"alice", ZERO}, n \in {0, 1} : VerifyCompliance(MALLORY, a, n)
    \/ \E c \in Callers, e \in ExpiryInputs : SetComplianceExpiry(c, e)
    \/ \E d \in GateSteps : Elapse(d)

SpecCompliance == Init /\ [][NextCompliance]_vars

\* ================================================================== properties
PaymentOps == {"processPayment", "batchProcessPayments"}

RECURSIVE SumOf(_, _)
SumOf(seq, field) ==
    IF seq = <<>> THEN 0
    ELSE (IF field = "amount" THEN Head(seq).amount ELSE Head(seq).fee)
         + SumOf(Tail(seq), field)

NoncesOf(seq) == {seq[i].nonce : i \in DOMAIN seq}

\* ------------------------------------------------------------------------- C1
\* C1: a payment nonce settles at most once.  Once a payment with a nonce has
\* settled, every later processPayment carrying that nonce is rejected (with
\* "Router: already processed" when the router is not paused) and moves no
\* funds; a settlement always uses a nonce that was unprocessed before it and
\* is processed after it, so no nonce appears in two PaymentProcessed events.
C1_ExactlyOnce ==
    /\ \A p \in Params :
          p.nonce \in processed =>
             LET r == processPayment(World, p) IN
             /\ ~r.ok
             /\ (~paused => r.reason = "Router: already processed")
             /\ Transact(World, r) = World
    /\ (receipt.op = "processPayment" /\ receipt.reason = "Router: already processed") =>
          (~receipt.ok /\ Snapshot = before)
    /\ (receipt.op = "processPayment" /\ receipt.ok) =>
          /\ Len(receipt.events) = 1
          /\ receipt.events[1].nonce \notin before.processed
          /\ receipt.events[1].nonce \in processed
    /\ \A i, j \in DOMAIN paymentLog :
          i # j => paymentLog[i].nonce # paymentLog[j].nonce
    /\ NoncesOf(paymentLog) = processed

\* a settled nonce has been presented again and was turned away
C1_Replayed ==
    /\ receipt.op = "processPayment"
    /\ ~receipt.ok
    /\ receipt.reason = "Router: already processed"
    /\ Len(paymentLog) >= 1
    /\ balances = before.balances

\* ------------------------------------------------------------------------- C2
\* C2: the nonce of a payment that got past the initial checks stays processed
\* whatever the outcome: when a payment is rejected after its nonce was marked,
\* the nonce is in the processed set afterwards.
C2_BurnSurvivesRejection ==
    (receipt.op = "processPayment" /\ ~receipt.ok /\ receipt.marked # {}) =>
        receipt.marked \subseteq processed

\* ------------------------------------------------------------------------- C3
\* C3: a rejected processPayment is atomic on what it moves and records: the
\* token balances, the agent records, the announcement log and the router's
\* event log are exactly what they were before the call, whichever step
\* rejected it.
C3_RejectedPaymentChangesNothing ==
    /\ (receipt.op = "processPayment" /\ ~receipt.ok) =>
          /\ balances = before.balances
          /\ authorizationStates = before.authorizationStates
          /\ agents = before.agents
          /\ announcements = before.announcements
          /\ announced = before.announced
          /\ announcementCount = before.announcementCount
          /\ paymentLog = before.paymentLog
          /\ receipt.events = <<>>
    /\ \A p \in GatedParams :
          LET r == processPayment(World, p) IN
          ~r.ok => LET w == Transact(World, r) IN
                   /\ w.balances = balances
                   /\ w.agents = agents
                   /\ w.announcements = announcements
                   /\ w.paymentLog = paymentLog

\* a registered payer's payment was rejected at the last step, the announcement,
\* after the spend was recorded and the funds had been pulled and split
C3_RejectedAtAnnouncement ==
    /\ receipt.op = "processPayment"
    /\ ~receipt.ok
    /\ receipt.reason = "StealthAnnouncer: already announced"
    /\ agents["alice"].isActive
    /\ receipt.marked # {}

\* ------------------------------------------------------------------------- C4
\* what one settled payment adds to the balance of account x, over every part
\* x plays in it
Delta(x, e) ==
    (IF x = e.from THEN 0 - e.amount ELSE 0)
    + (IF x = e.stealthAddress THEN e.amount - e.fee ELSE 0)
    + (IF x = FEE_VAULT THEN e.fee ELSE 0)

\* C4 as stated: after a settled payment the payer holds amount less, the
\* stealth address amount - fee more, the fee vault fee more, and the router
\* what it held before.
C4_FourBalances ==
    (receipt.op = "processPayment" /\ receipt.ok) =>
        LET e == receipt.events[1] IN
        /\ balances[e.from] = before.balances[e.from] - e.amount
        /\ balances[e.stealthAddress] =
              before.balances[e.stealthAddress] + e.amount - e.fee
        /\ balances[FEE_VAULT] = before.balances[FEE_VAULT] + e.fee
        /\ balances[ROUTER] = before.balances[ROUTER]

\* C4: a settled payment conserves funds.  Every account's balance changes by
\* the sum of what it is debited as payer and credited as stealth address and
\* as fee vault; the router keeps nothing unless it is itself the stealth
\* address.  When the stealth address is none of payer, router and fee vault,
\* the payer holds amount less, the stealth address amount - fee more, the fee
\* vault fee more and the router's balance is unchanged.
C4_Conservation ==
    (receipt.op = "processPayment" /\ receipt.ok) =>
        LET e == receipt.events[1] IN
        /\ \A x \in Accounts : balances[x] = before.balances[x] + Delta(x, e)
        /\ e.stealthAddress \notin {e.from, ROUTER, FEE_VAULT} =>
              /\ balances[e.from] = before.balances[e.from] - e.amount
              /\ balances[e.stealthAddress] =
                    before.balances[e.stealthAddress] + e.amount - e.fee
              /\ balances[FEE_VAULT] = before.balances[FEE_VAULT] + e.fee
              /\ balances[ROUTER] = before.balances[ROUTER]

\* a payment with a non-zero fee has settled to a stealth address of its own
C4_SettledWithFee ==
    /\ receipt.op = "processPayment"
    /\ receipt.ok
    /\ receipt.events[1].fee > 0
    /\ receipt.events[1].stealthAddress \in StealthAddrs
    /\ balances[FEE_VAULT] > before.balances[FEE_VAULT]

\* ------------------------------------------------------------------------- C5
\* C5: the fee of every settled payment is floor(amount * feeBps / 10000) for
\* the fee rate in force at the call, so it never exceeds 1% of the amount;
\* amount 1 at 10 bps pays fee 0 and the recipient gets the full amount, and
\* amount 10000 at 10 bps pays fee 10.
C5_FeeIsFloor ==
    /\ (receipt.op \in PaymentOps /\ receipt.ok) =>
          \A i \in DOMAIN receipt.events :
             LET e == receipt.events[i]
                 bps == before.platformFeeBps IN
             /\ e.fee * 10000 <= e.amount * bps
             /\ e.amount * bps < (e.fee + 1) * 10000
             /\ e.fee * 100 <= e.amount
             /\ (e.amount = 1 /\ bps = 10) => e.fee = 0
             /\ (e.amount = 10000 /\ bps = 10) => e.fee = 10
    /\ (receipt.op = "processPayment" /\ receipt.ok) =>
          LET e == receipt.events[1] IN
          (e.fee = 0 /\ e.stealthAddress \notin {e.from, ROUTER, FEE_VAULT}) =>
              /\ balances[e.stealthAddress] =
                    before.balances[e.stealthAddress] + e.amount
              /\ balances[FEE_VAULT] = before.balances[FEE_VAULT]

\* a payment of 1 unit has settled at 10 bps and the recipient got all of it
C5_OneUnitAtTenBps ==
    /\ receipt.op = "processPayment"
    /\ receipt.ok
    /\ before.platformFeeBps = 10
    /\ receipt.events[1].amount = 1
    /\ receipt.events[1].fee = 0
    /\ balances[receipt.events[1].stealthAddress] = 1

\* ------------------------------------------------------------------------- C6
\* C6: platformFeeBps is at most 100 in every reachable state.  It is 10 after
\* construction; setFee(x) sets it to x when the owner calls with x <= 100 and
\* otherwise (x > 100, or a caller who is not the owner) fails and leaves the
\* previous value in place.
C6_FeeCapped ==
    /\ platformFeeBps <= 100
    /\ receipt.op = "constructor" => platformFeeBps = 10
    /\ receipt.op = "setFee" =>
          IF receipt.caller = OWNER /\ receipt.arg <= 100
          THEN receipt.ok /\ platformFeeBps = receipt.arg
          ELSE ~receipt.ok /\ platformFeeBps = before.platformFeeBps
    /\ platformFeeBps # before.platformFeeBps => receipt.op = "setFee"

\* the owner asked for 101 bps while the fee stood at the cap
C6_OverCapRefused ==
    /\ receipt.op = "setFee"
    /\ receipt.caller = OWNER
    /\ receipt.arg = 101
    /\ ~receipt.ok
    /\ before.platformFeeBps = 100

\* ------------------------------------------------------------------------- C7
Fresh(p) ==
    /\ p.nonce \notin processed
    /\ <<p.from, p.nonce>> \notin authorizationStates
    /\ p.stealthAddress \notin announced
    /\ balances[p.from] >= p.amount

\* C7: while the router is paused every processPayment and batchProcessPayments
\* call is rejected and changes nothing; the flag changes only through a
\* successful pause or unpause by the owner, and anyone else's pause or unpause
\* fails; when the router is not paused (in particular after unpause) a fresh
\* valid payment settles.
C7_PauseBlocksPayments ==
    /\ (receipt.op \in PaymentOps /\ before.paused) =>
          /\ ~receipt.ok
          /\ receipt.reason = "EnforcedPause"
          /\ Snapshot = before
    /\ paused # before.paused =>
          /\ receipt.op \in {"pause", "unpause"}
          /\ receipt.caller = OWNER
          /\ receipt.ok
          /\ paused = (receipt.op = "pause")
    /\ (receipt.op \in {"pause", "unpause"} /\ receipt.caller # OWNER) =>
          (~receipt.ok /\ paused = before.paused)
    /\ paused =>
          /\ \A p \in Params : ~processPayment(World, p).ok
          /\ \A ps \in Batches : ~batchProcessPayments(World, ps).ok
    /\ ~paused =>
          \A p \in WellFormed : Fresh(p) => processPayment(World, p).ok

\* a batch was sent to the paused router after payments had settled
C7_RefusedWhilePaused ==
    /\ before.paused
    /\ receipt.op = "batchProcessPayments"
    /\ receipt.reason = "EnforcedPause"
    /\ Len(paymentLog) >= 1

\* ------------------------------------------------------------------------- C8
RECURSIVE SpentBy(_, _)
SpentBy(ps, payer) ==
    IF ps = <<>> THEN 0
    ELSE (IF Head(ps).from = payer THEN Head(ps).amount ELSE 0) + SpentBy(Tail(ps), payer)

RECURSIVE FloorFees(_, _)
FloorFees(ps, bps) ==
    IF ps = <<>> THEN 0
    ELSE (Head(ps).amount * bps) \div 10000 + FloorFees(Tail(ps), bps)

AllValid(ps) ==
    /\ \A i \in DOMAIN ps :
          /\ ps[i].stealthAddress # ZERO
          /\ ps[i].amount > 0
          /\ ps[i].ephemeralPubKey.len \in {33, 65}
          /\ ps[i].validAfter <= now /\ now < ps[i].validBefore
          /\ ps[i].signature.signer = ps[i].from
          /\ ps[i] = Signed(ps[i].from, ps[i].amount, ps[i].nonce, ps[i].validAfter,
                            ps[i].validBefore, ps[i].stealthAddress)
          /\ Fresh(ps[i])
    /\ \A i, j \in DOMAIN ps :
          i # j => /\ ps[i].nonce # ps[j].nonce
                   /\ ps[i].stealthAddress # ps[j].stealthAddress
    /\ \A a \in Payers : SpentBy(ps, a) <= balances[a]

\* C8: batchProcessPayments rejects an empty list and a list of more than 50
\* items and changes nothing; a list of 1..50 items that are all valid settles
\* every item's nonce and reports the number of items, the sum of the item
\* amounts and the sum of the item fees, each fee floored on its own.
C8_BatchBoundsAndTotals ==
    /\ \A ps \in Batches :
          LET r == batchProcessPayments(World, ps) IN
          /\ (Len(ps) = 0 \/ Len(ps) > 50) => (~r.ok /\ Transact(World, r) = World)
          /\ ~paused =>
                /\ r.reason = "Router: empty batch" <=> Len(ps) = 0
                /\ r.reason = "Router: batch too large" <=> Len(ps) > 50
                /\ (Len(ps) \in 1..50 /\ AllValid(ps)) =>
                      /\ r.ok
                      /\ NoncesOf(ps) \subseteq r.w.processed
                      /\ r.amount = SumOf(ps, "amount")
                      /\ r.fee = FloorFees(ps, platformFeeBps)
    /\ (receipt.op = "batchProcessPayments" /\ receipt.ok) =>
          /\ receipt.batch = <<Len(receipt.events), SumOf(receipt.events, "amount"),
                               SumOf(receipt.events, "fee")>>
          /\ Len(receipt.events) \in 1..50
          /\ processed = before.processed \cup NoncesOf(receipt.events)
          /\ NoncesOf(receipt.events) \cap before.processed = {}
    /\ (receipt.op = "batchProcessPayments"
        /\ receipt.reason \in {"Router: empty batch", "Router: batch too large"}) =>
          (~receipt.ok /\ Snapshot = before)

\* two items of 50 units settled in one batch at 100 bps: each fee floors to 0,
\* where the fee of their sum would be 1
C8_TwoItemsSettled ==
    /\ receipt.op = "batchProcessPayments"
    /\ receipt.ok
    /\ before.platformFeeBps = 100
    /\ receipt.batch = <<2, 100, 0>>

\* ------------------------------------------------------------------------- C9
\* C9 as stated: when item k of a batch fails, what items 1..k-1 of the same
\* call did stays committed: their nonces are processed, their events and
\* announcements are in the logs.
C9_EarlierItemsStay ==
    (receipt.op = "batchProcessPayments" /\ ~receipt.ok /\ receipt.failedAt >= 2) =>
        /\ Len(paymentLog) = Len(before.paymentLog) + receipt.failedAt - 1
        /\ Len(announcements) = Len(before.announcements) + receipt.failedAt - 1
        /\ processed # before.processed
        /\ balances # before.balances

\* C9: a batch is all or nothing.  When item k of a batch fails the whole call
\* is rejected and nothing of items 1..k-1 remains: balances, processed nonces,
\* used authorizations, announcements and events are what they were before the
\* call.
C9_BatchAllOrNothing ==
    /\ (receipt.op = "batchProcessPayments" /\ ~receipt.ok) =>
          (Snapshot = before /\ receipt.events = <<>>)
    /\ \A ps \in Batches :
          LET r == batchProcessPayments(World, ps) IN
          ~r.ok => Transact(World, r) = World

\* a batch failed at its second item after the first had settled inside the call
C9_FailedAtSecondItem ==
    /\ receipt.op = "batchProcessPayments"
    /\ ~receipt.ok
    /\ receipt.failedAt = 2
    /\ receipt.marked # {}

\* ------------------------------------------------------------------------ C10
RECURSIVE Cumulative(_, _)
Cumulative(ps, k) == IF k = 0 THEN 0 ELSE ps[k].amount + Cumulative(ps, k - 1)

\* the first item at which the running total exceeds R, 0 when none does
FirstExceeding(ps, R) ==
    IF \E k \in DOMAIN ps : Cumulative(ps, k) > R
    THEN CHOOSE k \in DOMAIN ps :
            /\ Cumulative(ps, k) > R
            /\ \A j \in 1..(k - 1) : Cumulative(ps, j) <= R
    ELSE 0

\* what the agent may still spend today
Remaining(a) ==
    a.dailySpendLimit
    - (IF now >= a.lastResetTimestamp + ONE_DAY THEN 0 ELSE a.spentToday)

\* C10: batch items are processed in array order and item k's daily-limit check
\* counts items 1..k-1 of the same call.  For a registered agent with remaining
\* allowance R and a batch of its payments whose running total first exceeds R
\* at item k: the batch is rejected, not later than item k; a rejection for the
\* daily limit happens at item k exactly; and at item k only a replayed nonce
\* or a compliance rejection, which are checked first, can take its place.
C10_LimitSeesEarlierItems ==
    agents["alice"].isActive =>
        \A ps \in GatedBatches :
            LET r == batchProcessPayments(World, ps)
                k == FirstExceeding(ps, Remaining(agents["alice"])) IN
            /\ r.reason = "AgentRegistry: daily limit exceeded" =>
                  (k > 0 /\ r.failedAt = k)
            /\ k > 0 =>
                  /\ ~r.ok
                  /\ r.failedAt \in 1..k
                  /\ r.failedAt = k =>
                        r.reason \in {"AgentRegistry: daily limit exceeded",
                                      "Router: already processed",
                                      "Router: compliance check failed"}
            /\ r.ok =>
                  /\ k = 0
                  /\ SubSeq(r.w.paymentLog, Len(paymentLog) + 1, Len(r.w.paymentLog))
                        = [i \in DOMAIN ps |->
                             [from |-> ps[i].from, stealthAddress |-> ps[i].stealthAddress,
                              amount |-> ps[i].amount,
                              fee |-> r.w.paymentLog[Len(paymentLog) + i].fee,
                              nonce |-> ps[i].nonce]]
                  /\ r.w.agents["alice"].spentToday =
                        (agents["alice"].dailySpendLimit - Remaining(agents["alice"]))
                        + SumOf(ps, "amount")

\* a batch of a registered agent was rejected for the daily limit at its second
\* item, the first item alone being within the limit
C10_SecondItemOverLimit ==
    /\ receipt.op = "batchProcessPayments"
    /\ receipt.reason = "AgentRegistry: daily limit exceeded"
    /\ receipt.failedAt = 2
    /\ agents["alice"].isActive
    /\ agents["alice"].dailySpendLimit >= 10000

\* ------------------------------------------------------------------------ C11
SettledFor(payer, nonce) ==
    \E i \in DOMAIN paymentLog :
        paymentLog[i].from = payer /\ paymentLog[i].nonce = nonce

\* C11: the replay check is keyed by (payer, nonce).  A well-formed payment
\* whose (payer, nonce) pair has not settled, with an unused authorization,
\* an unannounced stealth address and funds available, settles even when the
\* same nonce value has been processed for another payer.
C11_KeyedByPayerAndNonce ==
    ~paused =>
        \A p \in WellFormed :
            (/\ ~SettledFor(p.from, p.nonce)
             /\ <<p.from, p.nonce>> \notin authorizationStates
             /\ p.stealthAddress \notin announced
             /\ balances[p.from] >= p.amount)
            => processPayment(World, p).ok

\* ------------------------------------------------------------------------ C12
\* spentToday as the limit check of a call made now would see it
SpentInWindow(a) == IF now >= a.lastResetTimestamp + 86400 THEN 0 ELSE a.spentToday

\* C12: the daily limit bounds what recordTransaction accepts in one window.
\* An accepted transaction leaves spentToday = what the window had spent + its
\* amount, and that is at most dailySpendLimit; a transaction that would take
\* it above the limit fails with "daily limit exceeded" and leaves every field
\* of every agent record unchanged.
C12_DailyLimitEnforced ==
    /\ (receipt.op = "recordTransaction" /\ receipt.ok) =>
          LET a == agents[receipt.arg.agent]
              b == before.agents[receipt.arg.agent] IN
          /\ a.spentToday = SpentInWindow(b) + receipt.arg.amount
          /\ a.spentToday <= a.dailySpendLimit
          /\ a.dailySpendLimit = b.dailySpendLimit
          /\ a.totalTransactions = b.totalTransactions + 1
          /\ a.totalVolume = b.totalVolume + receipt.arg.amount
    /\ (receipt.op = "recordTransaction"
        /\ receipt.reason = "AgentRegistry: daily limit exceeded") =>
          /\ ~receipt.ok
          /\ agents = before.agents
          /\ LET b == before.agents[receipt.arg.agent] IN
             SpentInWindow(b) + receipt.arg.amount > b.dailySpendLimit
    /\ \A x \in Payers, n \in RecordAmounts \cup {1} :
          agents[x].isActive =>
             LET r == recordTransaction(World, ROUTER, x, n) IN
             IF SpentInWindow(agents[x]) + n > agents[x].dailySpendLimit
             THEN /\ ~r.ok
                  /\ r.reason = "AgentRegistry: daily limit exceeded"
                  /\ Transact(World, r) = World
             ELSE r.ok

\* with 500 spent of a limit of 999, a further 500 was refused: one unit over
C12_RefusedOneOver ==
    /\ receipt.op = "recordTransaction"
    /\ receipt.reason = "AgentRegistry: daily limit exceeded"
    /\ before.agents["alice"].spentToday = 500
    /\ before.agents["alice"].dailySpendLimit = 999
    /\ receipt.arg = [agent |-> "alice", amount |-> 500]
    /\ now < before.agents["alice"].lastResetTimestamp + 86400

\* ------------------------------------------------------------------------ C13
\* C13: the daily window resets at lastResetTimestamp + 86400, boundary
\* included.  A transaction accepted at or after that time leaves spentToday =
\* its amount and lastResetTimestamp = now; one accepted before it adds to
\* spentToday and leaves lastResetTimestamp alone; and at or after that time a
\* transaction of the full dailySpendLimit is accepted.
C13_WindowReset ==
    /\ (receipt.op = "recordTransaction" /\ receipt.ok) =>
          LET a == agents[receipt.arg.agent]
              b == before.agents[receipt.arg.agent] IN
          IF now >= b.lastResetTimestamp + 86400
          THEN /\ a.spentToday = receipt.arg.amount
               /\ a.lastResetTimestamp = now
          ELSE /\ a.spentToday = b.spentToday + receipt.arg.amount
               /\ a.lastResetTimestamp = b.lastResetTimestamp
    /\ \A x \in Payers :
          (agents[x].isActive /\ now >= agents[x].lastResetTimestamp + 86400) =>
             LET r == recordTransaction(World, ROUTER, x, agents[x].dailySpendLimit) IN
             /\ r.ok
             /\ r.w.agents[x].spentToday = agents[x].dailySpendLimit
             /\ r.w.agents[x].lastResetTimestamp = now
    /\ \A x \in Payers :
          (agents[x].isActive /\ now < agents[x].lastResetTimestamp + 86400
           /\ agents[x].spentToday > 0) =>
             ~recordTransaction(World, ROUTER, x, agents[x].dailySpendLimit).ok

\* exactly 86400 seconds after the last reset, with the window spent, a
\* transaction of the full limit was accepted
C13_AcceptedAtBoundary ==
    /\ receipt.op = "recordTransaction"
    /\ receipt.ok
    /\ now = before.agents["alice"].lastResetTimestamp + 86400
    /\ before.agents["alice"].spentToday = 500
    /\ before.agents["alice"].dailySpendLimit = 500
    /\ agents["alice"].spentToday = 500
    /\ agents["alice"].lastResetTimestamp = now

\* ------------------------------------------------------------------------ C14
\* C14: every agent's reputationScore stays within 0..1000.  It is 500 at
\* registration; an accepted transaction adds 10 exactly when it makes
\* totalTransactions a multiple of 10, capped at 1000 (995 becomes 1000), and
\* otherwise leaves it alone; updateReputation with a score above 1000 is
\* rejected and changes nothing, and with a score up to 1000 sets it.
C14_ReputationBounded ==
    /\ \A x \in Payers : agents[x].reputationScore \in 0..1000
    /\ (receipt.op = "registerAgent" /\ receipt.ok) =>
          agents[receipt.caller].reputationScore = 500
    /\ (receipt.op = "recordTransaction" /\ receipt.ok) =>
          LET a == agents[receipt.arg.agent]
              b == before.agents[receipt.arg.agent] IN
          a.reputationScore =
             IF a.totalTransactions % 10 # 0 THEN b.reputationScore
             ELSE IF b.reputationScore + 10 > 1000 THEN 1000
             ELSE b.reputationScore + 10
    /\ receipt.op = "updateReputation" =>
          IF receipt.ok
          THEN /\ receipt.arg.score <= 1000
               /\ agents[receipt.arg.agent].reputationScore = receipt.arg.score
          ELSE agents = before.agents
    /\ (receipt.op = "updateReputation" /\ receipt.arg.score > 1000) => ~receipt.ok

\* the tenth transaction of an agent whose score stood at 995 took it to 1000
C14_CappedAtTenth ==
    /\ receipt.op = "recordTransaction"
    /\ receipt.ok
    /\ before.agents["alice"].reputationScore = 995
    /\ agents["alice"].totalTransactions = 10
    /\ agents["alice"].reputationScore = 1000

\* ------------------------------------------------------------------------ C15
\* C15: registerAgent by a caller whose record is active fails and changes
\* nothing; with less than the registration fee it fails and changes nothing;
\* otherwise it succeeds and the caller's record is active, owned by the
\* caller, with reputationScore 500, the default dailySpendLimit, spentToday,
\* totalTransactions and totalVolume 0, and no other record changes.
C15_RegisterAgent ==
    receipt.op = "registerAgent" =>
        LET c == receipt.caller IN
        IF before.agents[c].isActive
        THEN /\ ~receipt.ok
             /\ receipt.reason = "AgentRegistry: already registered"
             /\ Snapshot = before
        ELSE IF receipt.arg < before.registrationFee
        THEN /\ ~receipt.ok
             /\ receipt.reason = "AgentRegistry: insufficient fee"
             /\ Snapshot = before
        ELSE /\ receipt.ok
             /\ agents[c].isActive
             /\ agents[c].owner = c
             /\ agents[c].reputationScore = 500
             /\ agents[c].dailySpendLimit = 1000000000
             /\ agents[c].spentToday = 0
             /\ agents[c].totalTransactions = 0
             /\ agents[c].totalVolume = 0
             /\ agents[c].lastResetTimestamp = now
             /\ \A x \in Payers \ {c} : agents[x] = before.agents[x]

\* an agent with recorded transactions tried to register again
C15_RefusedWhileActive ==
    /\ receipt.op = "registerAgent"
    /\ receipt.reason = "AgentRegistry: already registered"
    /\ before.agents["alice"].totalTransactions > 0
    /\ before.registrationFee = 0

\* ------------------------------------------------------------------------ C16
RegistryOps ==
    {"registerAgent", "recordTransaction", "setDailyLimit", "updateReputation",
     "deactivateAgent"}

SpendChanged(x) ==
    \/ agents[x].spentToday # before.agents[x].spentToday
    \/ agents[x].totalVolume # before.agents[x].totalVolume

\* what C16 holds besides the origin of changes to spentToday and totalVolume
LedgerAccess ==
    /\ (receipt.op \in RegistryOps /\ ~receipt.ok) => agents = before.agents
    /\ (receipt.op = "recordTransaction" /\ receipt.ok) => receipt.caller = ROUTER
    /\ (receipt.op = "recordTransaction" /\ receipt.caller # ROUTER) => ~receipt.ok
    /\ receipt.op = "setDailyLimit" =>
          /\ receipt.ok <=> (before.agents[receipt.caller].isActive /\ receipt.arg > 0)
          /\ receipt.ok =>
                agents = [before.agents EXCEPT
                             ![receipt.caller].dailySpendLimit = receipt.arg]
    /\ (receipt.op \in {"updateReputation", "deactivateAgent"} /\ receipt.ok) =>
          /\ receipt.caller = OWNER
          /\ \A x \in Payers \ {receipt.arg.agent} : agents[x] = before.agents[x]
    /\ (receipt.op = "deactivateAgent" /\ receipt.ok) =>
          agents = [before.agents EXCEPT ![receipt.arg.agent].isActive = FALSE]

AnnouncedAddrs == {announcements[i].stealthAddress : i \in DOMAIN announcements}

\* C17: each stealth address is announced at most once.  An announce call with
\* scheme 1, a non-zero stealth address not announced before and a key of 33
\* or 65 bytes appends one Announcement naming its caller and adds 1 to
\* announcementCount; any other announce call fails and changes nothing; so
\* announcementCount is the number of distinct announced addresses and never
\* decreases.
C17_AnnouncedOnce ==
    /\ \A i, j \in DOMAIN announcements :
          i # j => announcements[i].stealthAddress # announcements[j].stealthAddress
    /\ announcementCount = Len(announcements)
    /\ announcementCount = Cardinality(announced)
    /\ announced = AnnouncedAddrs
    /\ announcementCount >= before.announcementCount
    /\ receipt.op = "announce" =>
          IF /\ receipt.arg.schemeId = 1
             /\ receipt.arg.stealthAddress # ZERO
             /\ receipt.arg.ephemeralPubKey.len \in {33, 65}
             /\ receipt.arg.stealthAddress \notin before.announced
          THEN /\ receipt.ok
               /\ announcementCount = before.announcementCount + 1
               /\ announcements = Append(before.announcements,
                     [schemeId |-> 1, stealthAddress |-> receipt.arg.stealthAddress,
                      caller |-> receipt.caller,
                      ephemeralPubKey |-> receipt.arg.ephemeralPubKey,
                      metadata |-> receipt.arg.metadata])
          ELSE /\ ~receipt.ok
               /\ Snapshot = before

\* an address the router had announced for a payment was announced again by
\* someone else, and refused
C17_SecondAnnouncementRefused ==
    /\ receipt.op = "announce"
    /\ receipt.reason = "StealthAnnouncer: already announced"
    /\ \E i \in DOMAIN announcements :
          /\ announcements[i].stealthAddress = receipt.arg.stealthAddress
          /\ announcements[i].caller = ROUTER

\* ------------------------------------------------------------------------ C18
ByRouter(e) == e.caller = ROUTER

\* C18: settled payments and the router's announcements correspond one to one.
\* A settled payment appends exactly one Announcement with scheme 1, its
\* stealth address, its ephemeral key, its view tag as metadata and the router
\* as caller; a payment to an announced stealth address does not settle and
\* changes nothing; so no two settled payments share a stealth address, and the
\* router's announcements are the settled payments' addresses, in order.
C18_OneAnnouncementPerPayment ==
    /\ \A p \in OpenParams :
          LET r == processPayment(World, p) IN
          /\ r.ok => r.w.announcements = Append(announcements,
                        [schemeId |-> 1, stealthAddress |-> p.stealthAddress,
                         caller |-> ROUTER, ephemeralPubKey |-> p.ephemeralPubKey,
                         metadata |-> <<p.viewTag>>])
          /\ p.stealthAddress \in announced => (~r.ok /\ Transact(World, r) = World)
    /\ (receipt.op = "processPayment" /\ receipt.ok) =>
          /\ Len(announcements) = Len(before.announcements) + 1
          /\ announcements[Len(announcements)].stealthAddress =
                receipt.events[1].stealthAddress
          /\ receipt.events[1].stealthAddress \notin before.announced
    /\ (receipt.op = "processPayment" /\ ~receipt.ok) =>
          announcements = before.announcements
    /\ \A i, j \in DOMAIN paymentLog :
          i # j => paymentLog[i].stealthAddress # paymentLog[j].stealthAddress
    /\ LET mine == SelectSeq(announcements, ByRouter) IN
       /\ Len(mine) = Len(paymentLog)
       /\ \A i \in DOMAIN mine : mine[i].stealthAddress = paymentLog[i].stealthAddress

\* a payment with a 65-byte key and view tag 7 settled after someone else's
\* announcement, and its announcement closes the log
C18_AnnouncedWithPayment ==
    /\ receipt.op = "processPayment"
    /\ receipt.ok
    /\ Len(announcements) = 2
    /\ announcements[1].caller # ROUTER
    /\ announcements[2] =
          [schemeId |-> 1, stealthAddress |-> "s2", caller |-> ROUTER,
           ephemeralPubKey |-> KEY65, metadata |-> <<7>>]

\* ------------------------------------------------------------------------ C19
Redeem(p) ==
    transferWithAuthorization(World, p.from, ROUTER, p.amount, p.validAfter,
                              p.validBefore, p.nonce, p.signature)

\* C19: an authorization is redeemable only while validAfter <= now <
\* validBefore.  Before validAfter and at or after validBefore its redemption
\* at the token fails ("auth not yet valid", "auth expired") and a payment
\* carrying it is rejected, with no balance changed; time never goes back, so
\* an authorization that has expired stays unredeemable.
C19_RedeemableOnlyInWindow ==
    /\ \A p \in OpenParams :
          LET t == Redeem(p)
              r == processPayment(World, p) IN
          /\ now < p.validAfter =>
                /\ ~t.ok /\ t.reason = "MockUSDC: auth not yet valid"
                /\ ~r.ok /\ Transact(World, r) = World
          /\ (now >= p.validAfter /\ now >= p.validBefore) =>
                /\ ~t.ok /\ t.reason = "MockUSDC: auth expired"
                /\ ~r.ok /\ Transact(World, r) = World
          /\ (t.ok \/ r.ok) => (p.validAfter <= now /\ now < p.validBefore)
    /\ (receipt.op \in {"transferWithAuthorization", "processPayment"} /\ ~receipt.ok) =>
          Snapshot = before
    /\ (receipt.op = "processPayment"
        /\ receipt.cause \in {"MockUSDC: auth not yet valid", "MockUSDC: auth expired"}) =>
          (~receipt.ok /\ receipt.reason = "Router: transferWithAuthorization failed")
    /\ now >= before.now

\* an authorization valid until 86400 was presented to the token at 86400
C19_ExpiredAtValidBefore ==
    /\ receipt.op = "transferWithAuthorization"
    /\ receipt.reason = "MockUSDC: auth expired"
    /\ now = 86400
    /\ balances = before.balances

\* ------------------------------------------------------------------------ C20
\* C20: a payment moves a payer's funds only under that payer's signature over
\* exactly (from, to = router, amount, validAfter, validBefore, nonce).  Every
\* payment that settles carries that signature; a payment signed by another
\* key, signed for another payee, or whose from, amount, nonce or window
\* differ from what was signed is rejected; a rejected payment changes no
\* balance, and a payer's balance falls only in a settled payment of theirs.
C20_OnlyUnderPayersSignature ==
    /\ \A p \in OpenParams :
          LET r == processPayment(World, p) IN
          /\ r.ok => p.signature =
                        Sign(p.from, structHash(p.from, ROUTER, p.amount, p.validAfter,
                                                p.validBefore, p.nonce))
          /\ ~r.ok => Transact(World, r).balances = balances
    /\ \A t \in Tampered(OpenBase) : ~processPayment(World, t).ok
    /\ (receipt.op = "processPayment" /\ receipt.cause = "MockUSDC: invalid signature") =>
          (~receipt.ok /\ Snapshot = before)
    /\ receipt.op = "processPayment" =>
          \A x \in Payers :
             balances[x] < before.balances[x] =>
                (receipt.ok /\ receipt.events[1].from = x)

\* a payment was rejected because its signature did not recover to the payer
C20_SignatureRefused ==
    /\ receipt.op = "processPayment"
    /\ ~receipt.ok
    /\ receipt.cause = "MockUSDC: invalid signature"
    /\ balances = before.balances

\* ------------------------------------------------------------------------ C21
\* the causes the token gives for refusing an authorization
TokenCauses ==
    {"MockUSDC: auth not yet valid", "MockUSDC: auth expired",
     "MockUSDC: auth already used", "MockUSDC: invalid signature",
     "ERC20InsufficientBalance"}

\* C21: every rejected processPayment reports a reason specific to its cause.
\* Two payments rejected for different causes (authorization not yet valid,
\* expired, signed wrongly, nonce reused, payer short of funds) are rejected
\* with different reasons, and every payment either settles or is rejected
\* with a reason.
C21_ReasonPerCause ==
    /\ \A p, q \in OpenParams :
          LET rp == processPayment(World, p)
              rq == processPayment(World, q) IN
          (~rp.ok /\ ~rq.ok /\ rp.cause # rq.cause) => rp.reason # rq.reason
    /\ (receipt.op = "processPayment" /\ ~receipt.ok) =>
          receipt.reason # ""

\* ------------------------------------------------------------------------ C22
Malformed(p) ==
    \/ p.stealthAddress = ZERO
    \/ p.amount = 0
    \/ p.ephemeralPubKey.len \notin {33, 65}

ValidationReasons ==
    {"Router: zero stealth address", "Router: zero amount",
     "Router: invalid ephemeral key length"}

\* C22: validation failures never mutate state.  A processPayment whose
\* stealth address is zero, whose amount is zero or whose ephemeral key is
\* neither 33 nor 65 bytes long is rejected before anything is written: the
\* call marks no nonce, not even its own, and afterwards the processed set,
\* the balances, the agent records and the announcement log are what they
\* were.
C22_ValidationWritesNothing ==
    /\ \A p \in GatedParams :
          Malformed(p) =>
             LET r == processPayment(World, p) IN
             /\ ~r.ok
             /\ r.reason \in ValidationReasons \cup {"Router: already processed"}
             /\ r.w = World
    /\ (receipt.op = "processPayment" /\ receipt.reason \in ValidationReasons) =>
          /\ ~receipt.ok
          /\ receipt.marked = {}
          /\ processed = before.processed
          /\ balances = before.balances
          /\ agents = before.agents
          /\ announcements = before.announcements
          /\ Snapshot = before

\* a registered payer, with one payment settled, sent a payment with an empty
\* ephemeral key
C22_EmptyKeyRefused ==
    /\ receipt.op = "processPayment"
    /\ receipt.reason = "Router: invalid ephemeral key length"
    /\ agents["alice"].isActive
    /\ Len(paymentLog) >= 1
    /\ receipt.marked = {}

\* ------------------------------------------------------------------------ C23
\* a payment that nothing but the gate can stop
Settleable(p) ==
    /\ Fresh(p)
    /\ ~paused
    /\ p.validAfter <= now /\ now < p.validBefore
    /\ ~agents[p.from].isActive

\* C23: compliance gating.  checkCompliance(x) is true whenever compliance is
\* not required; when it is required, it is true exactly if x is marked
\* compliant and now <= verifiedAt(x) + complianceExpiry.  The expiry is 365
\* days after construction and setComplianceExpiry below one day (or by anyone
\* but the owner) is rejected, so it is never below one day.  A payment of a
\* payer for whom checkCompliance is false is rejected with no funds moved,
\* and a payment that only the gate could stop settles once its payer is
\* compliant or the requirement is off.
C23_ComplianceGating ==
    /\ \A x \in Payers :
          checkCompliance(x) <=>
             \/ ~complianceRequired
             \/ x \in isCompliant /\ now <= verifiedAt[x] + complianceExpiry
    /\ complianceExpiry >= ONE_DAY
    /\ receipt.op = "constructor" => complianceExpiry = 365 * ONE_DAY
    /\ receipt.op = "setComplianceExpiry" =>
          IF receipt.caller = OWNER /\ receipt.arg >= ONE_DAY
          THEN receipt.ok /\ complianceExpiry = receipt.arg
          ELSE ~receipt.ok /\ complianceExpiry = before.complianceExpiry
    /\ complianceExpiry # before.complianceExpiry => receipt.op = "setComplianceExpiry"
    /\ \A p \in GateParams :
          LET r == processPayment(World, p)
              gated == complianceRequired
                       /\ ~(p.from \in isCompliant
                            /\ now <= verifiedAt[p.from] + complianceExpiry) IN
          /\ gated => (~r.ok /\ Transact(World, r) = World)
          /\ (gated /\ p.nonce \notin processed) =>
                r.reason = "Router: compliance check failed"
          /\ (~gated /\ Settleable(p)) =>
                (r.ok /\ Transact(World, r).balances[p.stealthAddress] > balances[p.stealthAddress])
    /\ (receipt.op = "processPayment"
        /\ receipt.reason = "Router: compliance check failed") =>
          /\ ~receipt.ok
          /\ before.complianceRequired
          /\ Snapshot = before

\* alice's payment was refused because her verification had expired the second
\* before, with the expiry at its minimum of one day
C23_RefusedOnceExpired ==
    /\ receipt.op = "processPayment"
    /\ receipt.reason = "Router: compliance check failed"
    /\ "alice" \in isCompliant
    /\ complianceExpiry = ONE_DAY
    /\ now = verifiedAt["alice"] + complianceExpiry + 1
    /\ balances = before.balances

\* ------------------------------------------------------------------------ C24
\* what the vault holds from deposits and mints, net of withdrawals and
\* redemptions: its balance and what it sent to the treasury, less the fees
\* the settlements sent it
principal == balances[FEE_VAULT] + balances[TREASURY] - SumOf(paymentLog, "fee")

\* The fee vault: settlements credit it, anyone deposits, mints, withdraws and
\* redeems, the owner and others ask for treasury withdrawals.
VaultParams ==
    { Signed("alice", 10000, "n1", 0, FAR, "s1"),
      Signed("alice", 10000, "n2", 0, FAR, "s2") }

AssetInputs == {1, 6}
TreasuryInputs == {0, 10, 30}

NextVault ==
    \/ \E p \in VaultParams : ProcessPayment(MALLORY, p)
    \/ Approve("bob", FEE_VAULT)
    \/ \E a \in AssetInputs : principal < MaxPrincipal /\ Deposit("bob", a, "bob")
    \/ principal < MaxPrincipal /\ Mint("bob", 1, "bob")
    \/ \E c \in Payers, a \in AssetInputs : Withdraw(c, a, c, "bob")
    \/ \E c \in Payers : Redeem4626(c, 1, c, "bob")
    \/ \E c \in Callers, x \in TreasuryInputs : WithdrawToTreasury(c, x)

SpecVault == Init /\ [][NextVault]_vars

META1 == [len |-> 66, id |-> "M1"]
META2 == [len |-> 66, id |-> "M2"]

\* the signature signRegisterKeys makes for a registrant at a nonce
KeysSigned(registrant, schemeId, stealthMetaAddress, nonce) ==
    [registrant |-> registrant, schemeId |-> schemeId,
     stealthMetaAddress |-> stealthMetaAddress,
     signature |-> Sign(registrant,
                        registerKeysHash(registrant, schemeId, stealthMetaAddress, nonce))]

KeysBase == KeysSigned("alice", 1, META1, 0)

KeysInputs ==
    {KeysSigned("alice", 1, m, n) : m \in {META1, META2}, n \in 0..MaxKeyNonce}
    \cup { KeysSigned("bob", 1, META1, 0),
           KeysSigned("alice", 0, META1, 0),
           KeysSigned("alice", 1, NO_META, 0),
           KeysSigned(ZERO, 1, META1, 0),
           [KeysBase EXCEPT !.registrant = "bob"],
           [KeysBase EXCEPT !.schemeId = 2],
           [KeysBase EXCEPT !.stealthMetaAddress = META2],
           [KeysBase EXCEPT !.signature =
               Sign("bob", registerKeysHash("alice", 1, META1, 0))] }

NextKeys ==
    \/ \E i \in KeysInputs :
          /\ i.registrant \in Payers => nonces[i.registrant] < MaxKeyNonce
          /\ RegisterKeysOnBehalf(MALLORY, i.registrant, i.schemeId,
                                  i.stealthMetaAddress, i.signature)
    \/ \E c \in Payers, k \in {0, 2}, m \in {META2, NO_META} : RegisterKeys(c, k, m)

SpecKeys == Init /\ [][NextKeys]_vars

TryOnBehalf(i) ==
    registerKeysOnBehalf(World, i.registrant, i.schemeId, i.stealthMetaAddress, i.signature)

\* C25: delegated key registration is replay-safe.  registerKeysOnBehalf
\* succeeds only with the registrant's signature over (registrant, schemeId,
\* meta-address, current nonce of the registrant); a success adds exactly 1 to
\* nonces[registrant] and stores the meta-address, a failure changes nothing;
\* nonces never decrease and change in no other way; a signature that has
\* registered keys, or whose nonce is behind the registrant's, is refused
\* from then on.
C25_DelegatedRegistrationOnce ==
    /\ receipt.op = "registerKeysOnBehalf" =>
          LET a == receipt.arg IN
          IF receipt.ok
          THEN /\ a.signature =
                     Sign(a.registrant,
                          registerKeysHash(a.registrant, a.schemeId, a.stealthMetaAddress,
                                           before.nonces[a.registrant]))
               /\ nonces = [before.nonces EXCEPT ![a.registrant] = @ + 1]
               /\ stealthMetaAddresses =
                     [before.stealthMetaAddresses EXCEPT
                         ![<<a.registrant, a.schemeId>>] = a.stealthMetaAddress]
               /\ \A i \in KeysInputs : i.signature = a.signature => ~TryOnBehalf(i).ok
          ELSE Snapshot = before
    /\ \A x \in Payers : nonces[x] >= before.nonces[x]
    /\ nonces # before.nonces => (receipt.op = "registerKeysOnBehalf" /\ receipt.ok)
    /\ \A i \in KeysInputs :
          /\ TryOnBehalf(i).ok =>
                i.signature =
                   Sign(i.registrant,
                        registerKeysHash(i.registrant, i.schemeId, i.stealthMetaAddress,
                                         nonces[i.registrant]))
          /\ (i.signature.signer \in Payers
              /\ i.signature.digest.nonce < nonces[i.signature.signer]) =>
                ~TryOnBehalf(i).ok

\* the signature that registered alice's keys at nonce 0 was presented again
\* and refused
C25_ReplayRefused ==
    /\ receipt.op = "registerKeysOnBehalf"
    /\ ~receipt.ok
    /\ receipt.reason = "StealthMetaRegistry: invalid signature"
    /\ receipt.arg = KeysBase
    /\ nonces["alice"] = 1
    /\ stealthMetaAddresses[<<"alice", 1>>] = META1

\* ------------------------------------------------------------------------ C26
\* The cross-chain router behind the mock bridge, which loops messages back to
\* it: payments sent, messages handed to the bridge by anyone, deliveries
\* claimed by anyone, and direct calls of the receiving function.
CrossBase == encodeMessage("alice", "s1", 100, KEY33, VIEW_TAG, LOCAL_CHAIN)
Forged == encodeMessage(MALLORY, "s2", 100, KEY65, 7, LOCAL_CHAIN)

SendInputs ==
    { <<REMOTE_CHAIN, "s1", 100>>, <<REMOTE_CHAIN, "s2", 100>>, <<9999, "s1", 100>>,
      <<REMOTE_CHAIN, ZERO, 100>>, <<REMOTE_CHAIN, "s1", 0>> }

NextBridge ==
    \/ Approve("alice", CROSS_CHAIN_ROUTER)
    \/ \E i \in SendInputs :
          /\ Len(messages) < MaxMessages
          /\ SendCrossChainPayment("alice", i[1], i[2], i[3], KEY33, VIEW_TAG)
    \/ \E d \in {CROSS_CHAIN_ROUTER, REMOTE} :
          /\ Len(messages) < MaxMessages
          /\ BridgeMessage(MALLORY, d, Forged)
    \/ \E k \in 0..MaxMessages : ClaimMessage(MALLORY, k)
    \/ \E m \in {CrossBase, Forged} : ReceiveCrossChainPayment(MALLORY, m)

SpecBridge == Init /\ [][NextBridge]_vars

RECURSIVE AmountsOf(_)
AmountsOf(set) ==
    IF set = {} THEN 0
    ELSE LET m == CHOOSE x \in set : TRUE IN m.amount + AmountsOf(set \ {m})

\* C26: cross-domain replay safety.  receiveCrossChainPayment is accepted only
\* from the bridge; a delivery is accepted only for a message whose hash is
\* not yet processed, marks it, pays its amount to its stealth address, counts
\* it and announces it once; a second delivery of a message with the same
\* hash is rejected; every rejected call changes no balance, counter or
\* announcement.  So each stealth address holds exactly the amounts of the
\* processed messages addressed to it, each paid once.
C26_DeliveredOnce ==
    /\ receipt.op = "receiveCrossChainPayment" =>
          /\ receipt.caller # BRIDGE => ~receipt.ok
          /\ ~receipt.ok => Snapshot = before
    /\ receipt.op = "claimMessage" =>
          IF receipt.ok /\ receipt.arg.delivery # <<>>
             /\ receipt.arg.delivery[1].destinationAddress = CROSS_CHAIN_ROUTER
          THEN LET m == receipt.arg.delivery[1].message IN
               /\ m \notin before.processedMessages
               /\ processedMessages = before.processedMessages \cup {m}
               /\ totalReceived = before.totalReceived + 1
               /\ balances = [before.balances EXCEPT
                                 ![CROSS_CHAIN_ROUTER] = @ - m.amount,
                                 ![m.stealthAddress] = @ + m.amount]
               /\ announcements = Append(before.announcements,
                     [schemeId |-> 1, stealthAddress |-> m.stealthAddress,
                      caller |-> CROSS_CHAIN_ROUTER,
                      ephemeralPubKey |-> m.ephemeralPubKey, metadata |-> <<m.viewTag>>])
          ELSE Snapshot = before
    /\ (receipt.op = "claimMessage" /\ receipt.arg.delivery # <<>>
        /\ receipt.arg.delivery[1].destinationAddress = CROSS_CHAIN_ROUTER
        /\ receipt.arg.delivery[1].message \in before.processedMessages) =>
          /\ ~receipt.ok
          /\ receipt.cause = "CrossChainRouter: already processed"
    /\ processedMessages # before.processedMessages =>
          (receipt.op = "claimMessage" /\ receipt.ok)
    /\ totalReceived = Cardinality(processedMessages)
    /\ \A x \in StealthAddrs :
          balances[x] = AmountsOf({m \in processedMessages : m.stealthAddress = x})
    /\ \A k \in 0..(Len(messages) - 1) :
          (messages[k + 1].destinationAddress = CROSS_CHAIN_ROUTER
           /\ messages[k + 1].message \in processedMessages) =>
             LET r == claimMessage(World, k) IN
             ~r.ok /\ Transact(World, r) = World

\* the one message on the bridge was delivered and paid, then claimed again
\* and refused
C26_SecondClaimRefused ==
    /\ receipt.op = "claimMessage"
    /\ ~receipt.ok
    /\ receipt.cause = "CrossChainRouter: already processed"
    /\ receipt.arg.messageIndex = 0
    /\ Len(messages) = 1
    /\ totalReceived = 1
    /\ balances["s1"] = 100

\* ====================================================== stealth address SDK
\* The group of secp256k1 is modelled as a cyclic group of order CurveOrder:
\* the point k*G is held as k, the point at infinity as 0.  A point and its
\* negative share their x coordinate and differ in their y coordinate.
Scalars == 1..(CurveOrder - 1)
BASE == 1

multiply(point, scalar) == (point * scalar) % CurveOrder

add(p, q) == (p + q) % CurveOrder

xOf(point) == IF 2 * point <= CurveOrder THEN point ELSE CurveOrder - point
yOf(point) == point

\* Point.toRawBytes: 02|03 || x when compressed (33 bytes), 04 || x || y
\* otherwise (65 bytes)
toRawBytes(point, isCompressed) ==
    IF isCompressed
    THEN <<IF 2 * point <= CurveOrder THEN 2 ELSE 3, xOf(point)>>
    ELSE <<4, xOf(point), yOf(point)>>

\* the point a byte string decodes to, 0 when it decodes to none
decode(bytes) ==
    IF Len(bytes) = 2 /\ bytes[1] = 2 THEN bytes[2]
    ELSE IF Len(bytes) = 2 /\ bytes[1] = 3 THEN CurveOrder - bytes[2]
    ELSE IF Len(bytes) = 3 /\ bytes[1] = 4 THEN bytes[3]
    ELSE 0

\* Point.fromHex accepts the encodings of the points of the curve
isPoint(bytes) ==
    /\ decode(bytes) \in Scalars
    /\ toRawBytes(decode(bytes), Len(bytes) = 2) = bytes

fromHex(bytes) == decode(bytes)

getPublicKey(priv, isCompressed) == toRawBytes(multiply(BASE, priv), isCompressed)

Threw == [ok |-> FALSE]

\* noble: getSharedSecret(privA, pubB, isCompressed = true)
getSharedSecret(priv, pub) ==
    IF priv \notin Scalars \/ ~isPoint(pub) THEN Threw
    ELSE [ok |-> TRUE, bytes |-> toRawBytes(multiply(fromHex(pub), priv), TRUE)]

\* ethers: SigningKey.computeSharedSecret returns the uncompressed point
computeSharedSecret(priv, pub) ==
    IF priv \notin Scalars \/ ~isPoint(pub) THEN Threw
    ELSE [ok |-> TRUE, bytes |-> toRawBytes(multiply(fromHex(pub), priv), FALSE)]

\* keccak256 of a byte string: a fixed function onto HashModulus values that
\* mixes every byte in
HashModulus == 1021
RECURSIVE keccak_256(_)
keccak_256(bytes) ==
    IF bytes = <<>> THEN 484
    ELSE (keccak_256(SubSeq(bytes, 1, Len(bytes) - 1)) * 251
          + 772 * (bytes[Len(bytes)] + 1)) % HashModulus

\* leading byte of the hash
computeViewTag(sharedSecretHash) == sharedSecretHash \div 256

AddressBook == <<"a0", "a1", "a2", "a3", "a4", "a5", "a6", "a7">>

\* ethers.computeAddress of an uncompressed public key
computeAddress(pub) == AddressBook[pub[3] + 1]

\* meta-address = spending public key || viewing public key
metaAddressOf(spendingPriv, viewingPriv) ==
    getPublicKey(spendingPriv, TRUE) \o getPublicKey(viewingPriv, TRUE)

parseMetaAddress(metaAddress) ==
    IF Len(metaAddress) # 4 THEN Threw
    ELSE [ok |-> TRUE, spendingPubKey |-> SubSeq(metaAddress, 1, 2),
          viewingPubKey |-> SubSeq(metaAddress, 3, 4)]

\* generateStealthAddress; ephPriv is the outcome of randomPrivateKey()
generateStealthAddress(metaAddress, ephPriv) ==
    LET keys == parseMetaAddress(metaAddress) IN
    IF ~keys.ok THEN Threw
    ELSE LET ephPub == getPublicKey(ephPriv, TRUE)
             sharedSecretPoint == getSharedSecret(ephPriv, keys.viewingPubKey)
         IN  IF ~sharedSecretPoint.ok THEN Threw
             ELSE LET sharedSecretHash == keccak_256(sharedSecretPoint.bytes)
                      viewTag == computeViewTag(sharedSecretHash)
                      hScalar == sharedSecretHash % CurveOrder
                  IN  IF hScalar \notin Scalars \/ ~isPoint(keys.spendingPubKey)
                      THEN Threw
                      ELSE LET hTimesG == multiply(BASE, hScalar)
                               spendingPoint == fromHex(keys.spendingPubKey)
                               stealthPoint == add(spendingPoint, hTimesG)
                           IN  [ok |-> TRUE,
                                stealthAddress |->
                                    computeAddress(toRawBytes(stealthPoint, FALSE)),
                                ephemeralPublicKey |-> ephPub,
                                viewTag |-> viewTag,
                                ephemeralPrivateKey |-> ephPriv]

checkStealthAddressIgnoresSpendingKey(ephemeralPubKey, viewingPrivateKey, stealthAddress, spendingPubKey) ==
    LET sharedSecretPoint == getSharedSecret(viewingPrivateKey, ephemeralPubKey) IN
    /\ sharedSecretPoint.ok
    /\ keccak_256(sharedSecretPoint.bytes) % CurveOrder \in Scalars
    /\ computeAddress(toRawBytes(multiply(BASE,
           keccak_256(sharedSecretPoint.bytes) % CurveOrder), FALSE)) = stealthAddress

checkStealthAddress(ephemeralPubKey, viewingPrivateKey, stealthAddress, spendingPubKey) ==
    LET sharedSecretPoint == getSharedSecret(viewingPrivateKey, ephemeralPubKey) IN
    IF ~sharedSecretPoint.ok THEN FALSE
    ELSE LET sharedSecretHash == keccak_256(sharedSecretPoint.bytes)
             hScalar == sharedSecretHash % CurveOrder
         IN  IF hScalar \notin Scalars \/ ~isPoint(spendingPubKey) THEN FALSE
             ELSE LET hTimesG == multiply(BASE, hScalar)
                      spendingPoint == fromHex(spendingPubKey)
                      stealthPoint == add(spendingPoint, hTimesG)
                      expectedAddress == computeAddress(toRawBytes(stealthPoint, FALSE))
                  IN  expectedAddress = stealthAddress

deriveStealthSpendingKeyUntweaked(spendingPrivateKey, viewingPrivateKey, ephemeralPubKey) ==
    [ok |-> TRUE, key |-> spendingPrivateKey]

deriveStealthSpendingKey(spendingPrivateKey, viewingPrivateKey, ephemeralPubKey) ==
    LET sharedSecretPoint == getSharedSecret(viewingPrivateKey, ephemeralPubKey) IN
    IF ~sharedSecretPoint.ok THEN Threw
    ELSE LET sharedSecretHash == keccak_256(sharedSecretPoint.bytes)
             h == sharedSecretHash % CurveOrder
             stealthPriv == (spendingPrivateKey + h) % CurveOrder
         IN  [ok |-> TRUE, key |-> stealthPriv]

\* the address a private key controls (ethers.Wallet of the key), ZERO for a
\* number that is no private key
addressOfKey(priv) ==
    IF priv \notin Scalars THEN ZERO
    ELSE computeAddress(getPublicKey(priv, FALSE))

\* StealthScanner.scanPayments: one pass of the loop over the events
scanTakes(event, viewingPrivateKey, spendingPublicKey) ==
    LET sharedSecret == computeSharedSecret(viewingPrivateKey, event.ephemeralPubKey.id) IN
    /\ event.metadata # <<>>
    /\ sharedSecret.ok
    /\ event.metadata[1] = computeViewTag(keccak_256(sharedSecret.bytes))
    /\ checkStealthAddress(event.ephemeralPubKey.id, viewingPrivateKey,
                           event.stealthAddress, spendingPublicKey)

scanPayments(viewingPrivateKey, spendingPublicKey, events) ==
    LET taken == SelectSeq(events,
                    LAMBDA e : scanTakes(e, viewingPrivateKey, spendingPublicKey))
    IN  [i \in DOMAIN taken |->
            [stealthAddress |-> taken[i].stealthAddress,
             ephemeralPubKey |-> taken[i].ephemeralPubKey,
             viewTag |-> taken[i].metadata[1],
             caller |-> taken[i].caller]]

\* the sender's client: generate a stealth address for the recipient and have
\* it announced
PayPrivately(sender, spendingPriv, viewingPriv, ephPriv) ==
    LET stealth == generateStealthAddress(metaAddressOf(spendingPriv, viewingPriv), ephPriv)
        r == IF ~stealth.ok THEN Fail(World, "generateStealthAddress threw")
             ELSE announce(World, sender, SCHEME_ID, stealth.stealthAddress,
                           [len |-> 33, id |-> stealth.ephemeralPublicKey],
                           <<stealth.viewTag>>)
        w == Transact(World, r)
    IN  /\ Len(announcements) < MaxAnnounced
        /\ announced' = w.announced
        /\ announcementCount' = w.announcementCount
        /\ announcements' = w.announcements
        /\ Record(Receipt("generateStealthAddress", sender,
                          [spendingPrivateKey |-> spendingPriv,
                           viewingPrivateKey |-> viewingPriv,
                           stealth |-> stealth],
                          r, <<>>, NoBatch))
        /\ UNCHANGED <<gateway, approvedFacilitators, messages, processedMessages, totalSent, totalReceived, nonces,
                       stealthMetaAddresses, vaultShares, approvals, complianceExpiry,
                       registrationFee, now, balances, authorizationStates, processed,
                       platformFeeBps, paused, agents, complianceRequired, isCompliant,
                       verifiedAt, paymentLog>>

\* the recipient scans the announcements made so far
ScanPayments(spendingPriv, viewingPriv) ==
    LET matched == scanPayments(viewingPriv, getPublicKey(spendingPriv, TRUE),
                                announcements)
    IN  /\ Record(Receipt("scanPayments", "recipient",
                          [spendingPrivateKey |-> spendingPriv,
                           viewingPrivateKey |-> viewingPriv],
                          Ok(World), matched, NoBatch))
        /\ UNCHANGED <<gateway, approvedFacilitators, messages, processedMessages, totalSent, totalReceived, nonces,
                       stealthMetaAddresses, vaultShares, approvals, complianceExpiry,
                       registrationFee, now, balances, authorizationStates, processed,
                       platformFeeBps, paused, announced, announcementCount,
                       announcements, agents, complianceRequired, isCompliant,
                       verifiedAt, paymentLog>>

\* the recipient derives the key of the i-th announcement
DeriveStealthSpendingKey(spendingPriv, viewingPriv, i) ==
    LET derived == deriveStealthSpendingKey(spendingPriv, viewingPriv,
                                            announcements[i].ephemeralPubKey.id)
    IN  /\ i \in DOMAIN announcements
        /\ Record(Receipt("deriveStealthSpendingKey", "recipient",
                          [spendingPrivateKey |-> spendingPriv,
                           viewingPrivateKey |-> viewingPriv,
                           index |-> i, derived |-> derived],
                          IF derived.ok THEN Ok(World)
                          ELSE Fail(World, "deriveStealthSpendingKey threw"),
                          <<>>, NoBatch))
        /\ UNCHANGED <<gateway, approvedFacilitators, messages, processedMessages, totalSent, totalReceived, nonces,
                       stealthMetaAddresses, vaultShares, approvals, complianceExpiry,
                       registrationFee, now, balances, authorizationStates, processed,
                       platformFeeBps, paused, announced, announcementCount,
                       announcements, agents, complianceRequired, isCompliant,
                       verifiedAt, paymentLog>>

\* a key that is no point of the curve
JUNK_KEY == [len |-> 33, id |-> <<9, 9>>]

\* the recipients whose payments are announced and scanned for
Wallets == {<<1, 2>>, <<2, 3>>, <<4, 4>>}

NextStealth ==
    \/ \E k \in Wallets, e \in Scalars : PayPrivately(MALLORY, k[1], k[2], e)
    \/ /\ Len(announcements) < MaxAnnounced
       /\ Announce(MALLORY, SCHEME_ID, "s1", JUNK_KEY, <<VIEW_TAG>>)
    \/ \E k \in Wallets : ScanPayments(k[1], k[2])
    \/ \E k \in Wallets, i \in 1..MaxAnnounced : DeriveStealthSpendingKey(k[1], k[2], i)

SpecStealth == Init /\ [][NextStealth]_vars

\* C27: round trip of the stealth scheme.  For every spending key, viewing key
\* and ephemeral scalar, whenever generateStealthAddress returns for the
\* meta-address of the two keys, checkStealthAddress called with the returned
\* ephemeral public key, the viewing private key, the returned stealth
\* address and the spending public key answers true; so does it for the
\* generation just made and for every announcement made from one.
C27_RoundTrip ==
    /\ \A s \in Scalars, v \in Scalars, e \in Scalars :
          LET g == generateStealthAddress(metaAddressOf(s, v), e) IN
          g.ok => checkStealthAddress(g.ephemeralPublicKey, v, g.stealthAddress,
                                      getPublicKey(s, TRUE))
    /\ (receipt.op = "generateStealthAddress" /\ receipt.arg.stealth.ok) =>
          checkStealthAddress(receipt.arg.stealth.ephemeralPublicKey,
                              receipt.arg.viewingPrivateKey,
                              receipt.arg.stealth.stealthAddress,
                              getPublicKey(receipt.arg.spendingPrivateKey, TRUE))
    /\ (receipt.op = "generateStealthAddress" /\ receipt.ok) =>
          LET a == announcements[Len(announcements)] IN
          /\ a.stealthAddress = receipt.arg.stealth.stealthAddress
          /\ checkStealthAddress(a.ephemeralPubKey.id, receipt.arg.viewingPrivateKey,
                                 a.stealthAddress,
                                 getPublicKey(receipt.arg.spendingPrivateKey, TRUE))

\* a stealth address was generated for the wallet (2, 3), announced, and is
\* recognised by that wallet but not by the wallet (1, 2)
C27_GeneratedAndRecognised ==
    /\ receipt.op = "generateStealthAddress"
    /\ receipt.ok
    /\ receipt.arg.spendingPrivateKey = 2
    /\ receipt.arg.viewingPrivateKey = 3
    /\ checkStealthAddress(announcements[Len(announcements)].ephemeralPubKey.id, 3,
                           announcements[Len(announcements)].stealthAddress,
                           getPublicKey(2, TRUE))
    /\ ~checkStealthAddress(announcements[Len(announcements)].ephemeralPubKey.id, 2,
                            announcements[Len(announcements)].stealthAddress,
                            getPublicKey(1, TRUE))

\* the address of the point at infinity, which no private key controls
ADDRESS_OF_INFINITY == computeAddress(toRawBytes(0, FALSE))

\* C28: claimability.  For every announcement that checkStealthAddress matches
\* for a wallet, deriveStealthSpendingKey returns (spendingPriv + h) mod n, and
\* that number is the private key of the announced stealth address: its public
\* point is spendingPub + h*G and its address the announced one.  When that
\* sum is the point at infinity the number is 0, which is no private key.
C28_DerivedKeyOwnsAddress ==
    /\ \A s \in Scalars, v \in Scalars, e \in Scalars :
          LET g == generateStealthAddress(metaAddressOf(s, v), e)
              d == deriveStealthSpendingKey(s, v, g.ephemeralPublicKey)
              h == keccak_256(getSharedSecret(e, getPublicKey(v, TRUE)).bytes) % CurveOrder
          IN  g.ok =>
                /\ d.ok
                /\ d.key = (s + h) % CurveOrder
                /\ multiply(BASE, d.key)
                     = add(fromHex(getPublicKey(s, TRUE)), multiply(BASE, h))
                /\ IF g.stealthAddress = ADDRESS_OF_INFINITY THEN d.key = 0
                   ELSE /\ d.key \in Scalars
                        /\ addressOfKey(d.key) = g.stealthAddress
                        /\ getPublicKey(d.key, FALSE)
                             = toRawBytes(add(fromHex(getPublicKey(s, TRUE)),
                                              multiply(BASE, h)), FALSE)
    /\ receipt.op = "deriveStealthSpendingKey" =>
          LET a == announcements[receipt.arg.index]
              d == receipt.arg.derived
          IN  ( /\ a.stealthAddress # ADDRESS_OF_INFINITY
                /\ checkStealthAddress(a.ephemeralPubKey.id, receipt.arg.viewingPrivateKey,
                       a.stealthAddress,
                       getPublicKey(receipt.arg.spendingPrivateKey, TRUE)) ) =>
                /\ d.ok
                /\ d.key \in Scalars
                /\ addressOfKey(d.key) = a.stealthAddress

\* the wallet (2, 3) derived the key of an announcement made for it; the key
\* is not its spending key and controls the announced address
C28_KeyDerived ==
    /\ receipt.op = "deriveStealthSpendingKey"
    /\ receipt.arg.spendingPrivateKey = 2
    /\ receipt.arg.viewingPrivateKey = 3
    /\ checkStealthAddress(announcements[receipt.arg.index].ephemeralPubKey.id, 3,
                           announcements[receipt.arg.index].stealthAddress,
                           getPublicKey(2, TRUE))
    /\ receipt.arg.derived.ok
    /\ receipt.arg.derived.key # 2
    /\ addressOfKey(receipt.arg.derived.key)
         = announcements[receipt.arg.index].stealthAddress

\* C29: the view-tag filter never rejects a true match.  For the announcement
\* of a generated stealth address, the view tag the scanner recomputes from
\* the recipient's viewing key and the announced ephemeral public key equals
\* the announced view tag; and a scan returns every announcement that
\* checkStealthAddress matches for the scanning wallet.
C29_ViewTagKeepsTrueMatches ==
    /\ (receipt.op = "generateStealthAddress" /\ receipt.ok) =>
          LET a == announcements[Len(announcements)]
              sharedSecret == computeSharedSecret(receipt.arg.viewingPrivateKey,
                                                  a.ephemeralPubKey.id)
          IN  /\ sharedSecret.ok
              /\ computeViewTag(keccak_256(sharedSecret.bytes)) = a.metadata[1]
    /\ receipt.op = "scanPayments" =>
          \A i \in DOMAIN announcements :
             checkStealthAddress(announcements[i].ephemeralPubKey.id,
                                 receipt.arg.viewingPrivateKey,
                                 announcements[i].stealthAddress,
                                 getPublicKey(receipt.arg.spendingPrivateKey, TRUE))
             => \E j \in DOMAIN receipt.events :
                   receipt.events[j].stealthAddress = announcements[i].stealthAddress

\* ------------------------------------------------------------------- C30
\* the part of the params that the payer's signature covers, with the signature
Authorization(p) ==
    [from |-> p.from, amount |-> p.amount, nonce |-> p.nonce,
     validAfter |-> p.validAfter, validBefore |-> p.validBefore,
     signature |-> p.signature]

\* the payment headers the payers' clients sent: one per signed authorization,
\* with the stealth address, ephemeral key and view tag the payer chose
PayerHeaders ==
    {Signed("alice", 10000, n, 0, FAR, "s1") : n \in Nonces}
    \cup { Signed("bob", 10000, "n1", 0, FAR, "s1"),
           [Signed("alice", 1, "n1", 0, FAR, "s2") EXCEPT
               !.ephemeralPubKey = KEY65, !.viewTag = 7] }

\* the state the latest transaction read
BeforeWorld ==
    [balances |-> before.balances, authorizationStates |-> before.authorizationStates,
     processed |-> before.processed, announced |-> before.announced,
     announcementCount |-> before.announcementCount,
     announcements |-> before.announcements,
     agents |-> before.agents, paymentLog |-> before.paymentLog]

\* the latest transaction is the settlement of these params
SettledAs(p) ==
    /\ receipt.op = "processPayment"
    /\ receipt.ok
    /\ processPayment(BeforeWorld, p).ok
    /\ processPayment(BeforeWorld, p).w = World

\* C30: front-running protection.  Every settlement that consumes the signed
\* authorization of a payer's payment header has the stealth address, the
\* ephemeral key and the view tag of that header, whoever submits it: it
\* credits the header's stealth address and announces the header's key and tag.
C30_SettlesAsThePayerChose ==
    \A h \in PayerHeaders, p \in OpenParams :
          (Authorization(p) = Authorization(h) /\ SettledAs(p)) =>
             /\ p.stealthAddress = h.stealthAddress
             /\ p.ephemeralPubKey = h.ephemeralPubKey
             /\ p.viewTag = h.viewTag
             /\ balances[h.stealthAddress] > before.balances[h.stealthAddress]
             /\ announcements[Len(announcements)].stealthAddress = h.stealthAddress

\* C34: agent records are never deleted or reset.  For an identity that has
\* registered, no transaction lowers totalTransactions or totalVolume or
\* changes registeredAt, and a deactivation changes isActive only.
C34_RecordsNeverReset ==
    \A a \in Payers :
       before.agents[a].owner # ZERO =>
          /\ agents[a].totalTransactions >= before.agents[a].totalTransactions
          /\ agents[a].totalVolume >= before.agents[a].totalVolume
          /\ agents[a].registeredAt = before.agents[a].registeredAt
          /\ (receipt.op = "deactivateAgent" /\ receipt.ok) =>
                agents[a] = [before.agents[a] EXCEPT
                                !.isActive = IF a = receipt.arg.agent THEN FALSE ELSE @]

\* C36 as stated: every active agent has spentToday <= dailySpendLimit.
C36_SpentWithinLimit ==
    \A a \in Payers :
       agents[a].isActive => agents[a].spentToday <= agents[a].dailySpendLimit

\* C36, amended: every accepted recordTransaction leaves the agent's spentToday
\* at or below its dailySpendLimit; an active agent's spentToday exceeds the
\* limit only after the agent's own setDailyLimit lowered the limit below what
\* was already spent, and while it does, within the same 24-hour window, no
\* positive amount is recorded for that agent.
C36_WithinLimitUnlessLowered ==
    /\ (receipt.op = "recordTransaction" /\ receipt.ok) =>
          agents[receipt.arg.agent].spentToday
             <= agents[receipt.arg.agent].dailySpendLimit
    /\ \A a \in Payers :
          (agents[a].isActive /\ agents[a].spentToday > agents[a].dailySpendLimit) =>
             /\ before.agents[a].spentToday <= before.agents[a].dailySpendLimit =>
                   /\ receipt.op = "setDailyLimit"
                   /\ receipt.ok
                   /\ receipt.caller = a
                   /\ receipt.arg = agents[a].dailySpendLimit
                   /\ agents[a].spentToday = before.agents[a].spentToday
             /\ now < agents[a].lastResetTimestamp + ONE_DAY =>
                   \A n \in RecordAmounts :
                      LET r == recordTransaction(World, ROUTER, a, n) IN
                      /\ ~r.ok
                      /\ r.reason = "AgentRegistry: daily limit exceeded"

\* alice lowered her limit below what she had spent that day, and the next
\* transaction was refused
C36_RefusedAfterLowering ==
    /\ receipt.op = "recordTransaction"
    /\ ~receipt.ok
    /\ receipt.reason = "AgentRegistry: daily limit exceeded"
    /\ agents["alice"].isActive
    /\ agents["alice"].spentToday = 1000
    /\ agents["alice"].dailySpendLimit = 999

\* ------------------------------------------------------------------- C37
\* Payments of payers who never registered, are registered, or were deactivated.
InactiveParams ==
    { Signed("alice", 10000, "n1", 0, FAR, "s1"),
      Signed("alice", 1, "n2", 0, FAR, "s2"),
      Signed("bob", 10000, "n2", 0, FAR, "s2"),
      Signed("bob", 20000, "n1", 0, FAR, "s1") }

InactiveLimits == {5000, 20000}

NextInactive ==
    \/ \E p \in InactiveParams : ProcessPayment(MALLORY, p)
    \/ RegisterAgent("alice")
    \/ \E l \in InactiveLimits : SetDailyLimit("alice", l)
    \/ \E c \in {OWNER, "alice"}, a \in Payers : DeactivateAgent(c, a)

SpecInactive == Init /\ [][NextInactive]_vars

\* every check of _processPayment but the registry's passes
OtherChecksPass(p) ==
    /\ ~paused
    /\ p.nonce \notin processed
    /\ checkCompliance(p.from)
    /\ p.validAfter < now + 1 /\ now < p.validBefore
    /\ <<p.from, p.nonce>> \notin authorizationStates
    /\ balances[p.from] >= p.amount
    /\ p.stealthAddress \notin announced

\* C37: a payment whose payer is not an active agent (never registered, or
\* deactivated) is neither rate-limited nor recorded: it settles exactly when
\* every other check passes, whatever the payer's record says about limits,
\* and no processPayment changes the record of an agent that was not active.
C37_InactivePayerNotRecorded ==
    /\ receipt.op = "processPayment" =>
          \A a \in Payers :
             agents[a] # before.agents[a] =>
                before.agents[a].isActive /\ receipt.ok
    /\ \A p \in InactiveParams :
          ~agents[p.from].isActive =>
             /\ processPayment(World, p).ok <=> OtherChecksPass(p)
             /\ processPayment(World, p).ok =>
                   processPayment(World, p).w.agents = agents
    /\ \A p \in InactiveParams :
          (SettledAs(p) /\ ~before.agents[p.from].isActive) =>
             /\ agents = before.agents
             /\ paymentLog = Append(before.paymentLog,
                   [from |-> p.from, stealthAddress |-> p.stealthAddress,
                    amount |-> p.amount,
                    fee |-> calculateFee(p.amount, platformFeeBps),
                    nonce |-> p.nonce])

\* alice registered, set her daily limit to 5000 and was deactivated; her
\* payment of 10000 settled and her record is as it was
C37_SettledPastTheLimit ==
    /\ SettledAs(Signed("alice", 10000, "n1", 0, FAR, "s1"))
    /\ agents["alice"].owner = "alice"
    /\ ~agents["alice"].isActive
    /\ agents["alice"].dailySpendLimit = 5000
    /\ agents["alice"].spentToday = 0
    /\ agents["alice"].totalTransactions = 0
    /\ balances["alice"] = InitialBalance - 10000

\* C38: a payer's signed authorization moves the payer's funds only as part of
\* a settled payment.  A payer's balance falls only in an accepted
\* processPayment that logs a payment of that payer for the amount debited
\* and marks its nonce processed; every authorization used at the token has
\* its nonce processed by the router, and the router holds nothing between
\* transactions.
C38_DebitOnlyInSettlement ==
    /\ \A a \in Payers :
          balances[a] < before.balances[a] =>
             /\ receipt.op = "processPayment"
             /\ receipt.ok
             /\ Len(paymentLog) = Len(before.paymentLog) + 1
             /\ paymentLog[Len(paymentLog)].from = a
             /\ paymentLog[Len(paymentLog)].amount = before.balances[a] - balances[a]
             /\ paymentLog[Len(paymentLog)].nonce \in processed
    /\ \A u \in authorizationStates : u[2] \in processed
    /\ balances[ROUTER] = 0

\* ------------------------------------------------------------------- C35
\* StealthPaymentRouter.setApprovedFacilitator
setApprovedFacilitator(caller, facilitator, approved) ==
    onlyOwner(caller,
        IF facilitator = ZERO THEN Fail(World, "Router: zero facilitator")
        ELSE Ok(World))

SetApprovedFacilitator(caller, facilitator, approved) ==
    LET r == setApprovedFacilitator(caller, facilitator, approved) IN
    /\ approvedFacilitators' =
          IF ~r.ok THEN approvedFacilitators
          ELSE IF approved THEN approvedFacilitators \cup {facilitator}
          ELSE approvedFacilitators \ {facilitator}
    /\ Record(Receipt("setApprovedFacilitator", caller,
                      [facilitator |-> facilitator, approved |-> approved],
                      r, <<>>, NoBatch))
    /\ UNCHANGED <<gateway, now, balances, authorizationStates, processed, platformFeeBps,
                   paused, announced, announcementCount, announcements, agents,
                   complianceRequired, isCompliant, verifiedAt, complianceExpiry,
                   vaultShares, approvals, nonces, stealthMetaAddresses, messages,
                   processedMessages, totalSent, totalReceived, registrationFee,
                   paymentLog>>

FACILITATOR == "facilitator"
Submitters == {MALLORY, FACILITATOR, "alice"}

FacilitatorParams ==
    { Signed("alice", 10000, "n1", 0, FAR, "s1"),
      Signed("bob", 1, "n2", 0, FAR, "s2") }

FacilitatorBatches == { <<p>> : p \in FacilitatorParams }

NextFacilitators ==
    \/ \E c \in Submitters, p \in FacilitatorParams : ProcessPayment(c, p)
    \/ \E c \in Submitters, ps \in FacilitatorBatches : BatchProcessPayments(c, ps)
    \/ \E c \in Callers, f \in {FACILITATOR, MALLORY, ZERO}, b \in BOOLEAN :
          SetApprovedFacilitator(c, f, b)

SpecFacilitators == Init /\ [][NextFacilitators]_vars

\* C35: only approved facilitators submit payments on behalf of agents.  Every
\* accepted processPayment or batchProcessPayments was called by the payer of
\* the payments it settled or by an address in approvedFacilitators, so a
\* facilitator revoked by setApprovedFacilitator(f, false) settles nothing for
\* others afterwards.
C35_OnlyApprovedFacilitators ==
    (receipt.op \in {"processPayment", "batchProcessPayments"} /\ receipt.ok) =>
       \/ receipt.caller \in approvedFacilitators
       \/ \A i \in (Len(before.paymentLog) + 1)..Len(paymentLog) :
             paymentLog[i].from = receipt.caller

\* ------------------------------------------------------- reentrant submissions
\* The external calls one settlement makes, in the order _processPayment makes
\* them: complianceGate.checkCompliance, agentRegistry.isRegistered and
\* recordTransaction, the low-level usdc.transferWithAuthorization, the
\* usdc.safeTransfer to the stealth address, announcer.announce.
Hooks == {"compliance", "registry", "token", "payout", "announcer"}

\* The state the callee at a hook runs in: whether the settlement gets as far as
\* that call, and the world it has written by then.
atHook(w, params, hook) ==
    LET valid == /\ params.nonce \notin w.processed
                 /\ params.stealthAddress # ZERO
                 /\ params.amount > 0
                 /\ validKeyLength(params.ephemeralPubKey)
        burned == markProcessed(w, params.nonce)
        compliant == ~(COMPLIANCE_GATE # ZERO /\ ~checkCompliance(params.from))
        recorded == IF AGENT_REGISTRY # ZERO /\ isRegistered(burned, params.from)
                    THEN recordTransaction(burned, ROUTER, params.from, params.amount)
                    ELSE Ok(burned)
        pulled == transferWithAuthorization(recorded.w, params.from, ROUTER,
                      params.amount, params.validAfter, params.validBefore,
                      params.nonce, params.signature)
        fee == calculateFee(params.amount, platformFeeBps)
        feeSent == sendFee(pulled.w, fee)
        paid == _transfer(feeSent.w, ROUTER, params.stealthAddress, params.amount - fee)
    IN  IF paused \/ ~valid THEN [reached |-> FALSE, w |-> w]
        ELSE IF hook = "compliance" THEN [reached |-> TRUE, w |-> burned]
        ELSE IF ~compliant THEN [reached |-> FALSE, w |-> w]
        ELSE IF hook = "registry" THEN [reached |-> TRUE, w |-> burned]
        ELSE IF ~recorded.ok THEN [reached |-> FALSE, w |-> w]
        ELSE IF hook = "token" THEN [reached |-> TRUE, w |-> recorded.w]
        ELSE IF ~(pulled.ok /\ feeSent.ok) THEN [reached |-> FALSE, w |-> w]
        ELSE IF hook = "payout" THEN [reached |-> TRUE, w |-> feeSent.w]
        ELSE IF ~paid.ok THEN [reached |-> FALSE, w |-> w]
        ELSE [reached |-> TRUE, w |-> paid.w]

\* modifier nonReentrant: a call made while another guarded call of the router
\* is running reverts
nonReentrant(entered, w, body) ==
    IF entered THEN Fail(w, "ReentrancyGuardReentrantCall") ELSE body

\* The call a callee makes back into the router while the outer settlement runs:
\* processPayment(again) or batchProcessPayments([again, again]).
reenter(w, again, asBatch) ==
    nonReentrant(TRUE, w,
        IF asBatch THEN batchProcessPayments(w, <<again, again>>)
        ELSE processPayment(w, again))

\* processPayment(params) whose callee at `hook` calls back into the router.  The
\* callee either lets the revert of its inner call propagate, which fails its
\* own call (the token's is a low-level call, so the router reports it under its
\* own reason; every other revert bubbles up), or it catches it and returns
\* normally.  A refused inner call has written nothing, so the outer settlement
\* goes on from the state it had.
processPaymentReentered(w, params, hook, again, asBatch, propagates) ==
    LET at == atHook(w, params, hook)
        inner == reenter(at.w, again, asBatch)
    IN  IF ~at.reached \/ ~propagates \/ inner.ok THEN processPayment(w, params)
        ELSE IF hook = "token"
        THEN [Fail(at.w, "Router: transferWithAuthorization failed")
                 EXCEPT !.cause = inner.reason]
        ELSE Fail(at.w, inner.reason)

FundsMoved(w) == w.balances # balances

ProcessPaymentReentered(caller, params, hook, again, asBatch, propagates) ==
    LET at == atHook(World, params, hook)
        inner == reenter(at.w, again, asBatch)
        r == processPaymentReentered(World, params, hook, again, asBatch, propagates)
        w == Transact(World, r)
    IN  /\ Commit(w)
        /\ Record(Receipt("processPaymentReentered", caller,
                          [hook |-> hook, reached |-> at.reached,
                           same |-> again = params,
                           burned |-> params.nonce \in at.w.processed,
                           moved |-> FundsMoved(at.w),
                           innerOk |-> inner.ok, innerReason |-> inner.reason,
                           propagates |-> propagates],
                          r, Emitted(w), NoBatch))
        /\ UNCHANGED <<gateway, now, platformFeeBps, paused, approvedFacilitators, messages,
                       processedMessages, totalSent, totalReceived, nonces,
                       stealthMetaAddresses, vaultShares, approvals, complianceExpiry,
                       complianceRequired, isCompliant, verifiedAt, registrationFee>>

ReentrantParams ==
    { Signed("alice", 10000, "n1", 0, FAR, "s1"),
      Signed("alice", 1, "n1", 0, FAR, "s2"),
      Signed("alice", 10000, "n2", 0, FAR, "s2"),
      Signed("bob", 1, "n2", 0, FAR, "s1") }

ReentrantBatches ==
    UNION {[1..n -> ReentrantParams] : n \in 1..MaxBatchLen}

NextReentrant ==
    \/ \E p \in ReentrantParams : ProcessPayment(MALLORY, p)
    \/ \E ps \in ReentrantBatches : BatchProcessPayments(MALLORY, ps)
    \/ \E p, q \in ReentrantParams, h \in Hooks, b, c \in BOOLEAN :
          ProcessPaymentReentered(MALLORY, p, h, q, b, c)
    \/ \E c \in Callers : Pause(c)
    \/ \E c \in Callers : Unpause(c)

SpecReentrant == Init /\ [][NextReentrant]_vars

\* What the payer `a` has been debited so far, by the settlements in the log.
RECURSIVE DebitedOf(_, _)
DebitedOf(a, log) ==
    IF log = <<>> THEN 0
    ELSE (IF Head(log).from = a THEN Head(log).amount ELSE 0) + DebitedOf(a, Tail(log))

\* C33: at-most-once settlement under concurrency.  However the submissions of
\* one authorization interleave (separate calls, the same item twice in one
\* batch, a call back into processPayment or batchProcessPayments from inside
\* the compliance, registry, token or announcer call), no two settlements share
\* a nonce, each payer has been debited exactly the amounts of the settlements
\* logged in their name, each settlement has exactly one announcement, and funds
\* never move for a nonce that is not burned: not in a committed state and not
\* in the state a callee runs in.  A call back into the router is refused by the
\* guard and changes nothing; a batch that holds an item twice settles nothing.
C33_SettledAtMostOnce ==
    /\ \A i, j \in 1..Len(paymentLog) :
          paymentLog[i].nonce = paymentLog[j].nonce => i = j
    /\ \A a \in Payers : balances[a] = InitialBalance - DebitedOf(a, paymentLog)
    /\ Len(announcements) = Len(paymentLog)
    /\ \A i \in 1..Len(paymentLog) :
          /\ paymentLog[i].nonce \in processed
          /\ announcements[i].stealthAddress = paymentLog[i].stealthAddress
    /\ \A u \in authorizationStates : u[2] \in processed
    /\ \A p \in ReentrantParams, h \in Hooks :
          LET at == atHook(World, p, h) IN
          at.reached =>
             /\ p.nonce \in at.w.processed
             /\ \A b \in BOOLEAN :
                   LET inner == reenter(at.w, p, b) IN
                   /\ ~inner.ok
                   /\ inner.reason = "ReentrancyGuardReentrantCall"
                   /\ Transact(at.w, inner) = at.w
             /\ \A b, c \in BOOLEAN :
                   Transact(World, processPaymentReentered(World, p, h, p, b, c))
                      \in {World, Transact(World, processPayment(World, p))}
    /\ \A p \in ReentrantParams : ~batchProcessPayments(World, <<p, p>>).ok
    /\ receipt.op = "processPaymentReentered" =>
          /\ receipt.arg.moved => receipt.arg.burned
          /\ ~receipt.arg.innerOk
          /\ Len(paymentLog) <= Len(before.paymentLog) + 1

\* a settlement went through although its announcer called back into the router
\* with the same authorization, after the funds had moved
C33_ReenteredAfterFundsMoved ==
    /\ receipt.op = "processPaymentReentered"
    /\ receipt.ok
    /\ receipt.arg.hook = "announcer"
    /\ receipt.arg.same
    /\ receipt.arg.moved
    /\ receipt.arg.burned
    /\ receipt.arg.innerReason = "ReentrancyGuardReentrantCall"

\* ------------------------------------------------------------- x402 gateway
\* ethers.parseUnits(price, 6): a decimal USDC price in units
parseUnits(price) == IF price = "0.005" THEN 5000 ELSE 10000

\* decimal numerals and the numbers they denote
DecimalTexts == {"0", "1", "5000", "10000"}
valueOf(text) ==
    CASE text = "0" -> 0 [] text = "1" -> 1 [] text = "5000" -> 5000 [] text = "10000" -> 10000

\* BigInt(text): the empty string is 0n, any other non-numeral a SyntaxError
BigInt(text) ==
    IF text = "" THEN [ok |-> TRUE, value |-> 0]
    ELSE IF text \in DecimalTexts THEN [ok |-> TRUE, value |-> valueOf(text)]
    ELSE Threw

\* amount.toString()
toString(units) == CHOOSE text \in DecimalTexts : valueOf(text) = units

\* encodePaymentHeader: base64 of the JSON text of the params
encodePaymentHeader(params) == [encoding |-> "base64json", payload |-> params]

\* JSON.parse(Buffer.from(header, "base64").toString("utf-8")): throws on text
\* that is not JSON; the JSON text null parses to null
decodePaymentHeader(header) ==
    IF header.encoding = "base64json" THEN [ok |-> TRUE, isNull |-> FALSE, payment |-> header.payload]
    ELSE IF header.encoding = "null" THEN [ok |-> TRUE, isNull |-> TRUE, payment |-> <<>>]
    ELSE Threw

\* a property the decoded object holds with a truthy value
truthy(payment, field) == field \in DOMAIN payment /\ payment[field] # ""

Response(status, message, next) == [status |-> status, message |-> message, next |-> next]

\* the route handler behind the middleware: res.json(...)
handler == Response(200, "success", TRUE)

\* sdk: the middleware stealthPay402(options) returns, for one request.  rpcUp
\* tells whether the router.processed call gets an answer.
stealthPay402(options, header, rpcUp) ==
    IF header = NoHeader THEN Response(402, "Payment Required", FALSE)
    ELSE
    LET decoded == decodePaymentHeader(header) IN
    IF ~decoded.ok \/ decoded.isNull \/ "amount" \notin DOMAIN decoded.payment
    THEN Response(400, "Invalid payment header", FALSE)
    ELSE
    LET payment == decoded.payment
        paidAmount == BigInt(payment.amount) IN
    IF ~paidAmount.ok THEN Response(400, "Invalid payment header", FALSE)
    ELSE IF paidAmount.value < parseUnits(options.price)
    THEN Response(402, "Insufficient payment", FALSE)
    ELSE IF options.rpcUrl /\ ("nonce" \notin DOMAIN payment \/ ~rpcUp)
    THEN Response(400, "Invalid payment header", FALSE)
    ELSE IF options.rpcUrl /\ payment.nonce \notin processed
    THEN Response(402, "Payment not yet confirmed on-chain", FALSE)
    ELSE handler

\* demo server: the middleware stealthPayMiddleware(options) returns
stealthPayMiddleware(options, header, rpcUp) ==
    IF header = NoHeader THEN Response(402, "Payment Required", FALSE)
    ELSE
    LET decoded == decodePaymentHeader(header) IN
    IF ~decoded.ok \/ decoded.isNull THEN Response(400, "Invalid payment header", FALSE)
    ELSE
    LET payment == decoded.payment
        paidAmount == BigInt(IF truthy(payment, "amount") THEN payment.amount ELSE "0") IN
    IF ~paidAmount.ok THEN Response(400, "Invalid payment header", FALSE)
    ELSE IF paidAmount.value < parseUnits(options.price)
    THEN Response(402, "Insufficient payment", FALSE)
    ELSE IF /\ options.rpcUrl /\ options.routerAddress /\ truthy(payment, "nonce")
            /\ rpcUp /\ payment.nonce \notin processed
    THEN Response(402, "Payment not yet confirmed on-chain", FALSE)
    ELSE handler

middleware(by, options, header, rpcUp) ==
    IF by = "sdk" THEN stealthPay402(options, header, rpcUp)
    ELSE stealthPayMiddleware(options, header, rpcUp)

\* what a request leaves for an observer: the response, and in gateway.handled
\* the requests that reached the handler
Served(by, options, header, rpcUp, r) ==
    [op |-> "request", caller |-> by,
     arg |-> [options |-> options, header |-> header, rpcUp |-> rpcUp,
              status |-> r.status],
     ok |-> r.next, reason |-> r.message, cause |-> "", failedAt |-> 0, marked |-> {},
     events |-> <<>>, batch |-> NoBatch]

\* confirmed: the router answered the server that the header's nonce is processed
Handled(by, options, header, rpcUp, r) ==
    IF r.next
    THEN <<[by |-> by, options |-> options, header |-> header,
            confirmed |-> /\ options.rpcUrl /\ options.routerAddress /\ rpcUp
                          /\ header.encoding = "base64json"
                          /\ truthy(header.payload, "nonce")
                          /\ header.payload.nonce \in processed]>>
    ELSE <<>>

ChainUnchanged ==
    UNCHANGED <<now, balances, authorizationStates, processed, platformFeeBps, paused,
                approvedFacilitators, announced, announcementCount, announcements,
                agents, complianceRequired, isCompliant, verifiedAt, complianceExpiry,
                vaultShares, approvals, nonces, stealthMetaAddresses, messages,
                processedMessages, totalSent, totalReceived, registrationFee,
                paymentLog>>

\* any client's GET with the given X-PAYMENT header (or none)
Request(by, options, header, rpcUp) ==
    LET r == middleware(by, options, header, rpcUp) IN
    /\ Len(gateway.handled) < MaxHandled
    /\ gateway' = [gateway EXCEPT !.handled = @ \o Handled(by, options, header, rpcUp, r)]
    /\ Record(Served(by, options, header, rpcUp, r))
    /\ ChainUnchanged

\* payForAccess, steps 1-2: the first fetch carries no payment header.  A
\* response other than 402 is returned as it is.
AGENT == "alice"
MAX_PAYMENT == 10000000

PayForAccessFetch(by, options) ==
    LET r == middleware(by, options, NoHeader, TRUE) IN
    /\ gateway.pc \in {"idle", "returned"}
    /\ gateway.calls < MaxCalls
    /\ gateway' = [gateway EXCEPT !.pc = IF r.status = 402 THEN "quoted" ELSE "returned",
                                  !.by = by, !.options = options, !.header = NoHeader,
                                  !.status = IF r.status = 402 THEN 0 ELSE r.status,
                                  !.calls = @ + 1,
                                  !.handled = @ \o Handled(by, options, NoHeader, TRUE, r)]
    /\ Record(Served(by, options, NoHeader, TRUE, r))
    /\ ChainUnchanged

\* the nonces of the headers the servers have let through and of those the agent
\* has sent, one per call of payForAccess that got as far as paying
noncesSeen ==
    {gateway.handled[i].header.payload.nonce :
        i \in {k \in 1..Len(gateway.handled) :
                  /\ gateway.handled[k].header.encoding = "base64json"
                  /\ "nonce" \in DOMAIN gateway.handled[k].header.payload}}
    \cup {gateway.results[k].header.payload.nonce : k \in 1..Len(gateway.results)}

\* payForAccess, steps 3-7: the safety limit, the stealth address, the signed
\* authorization with a fresh random nonce, the header, and the one paid fetch
\* whose status is the function's result.
HOUR == 3600

paymentOf(privatePayment, amount, nonce) ==
    [from |-> AGENT, amount |-> toString(amount), nonce |-> nonce,
     validAfter |-> 0, validBefore |-> now + HOUR,
     stealthAddress |-> IF privatePayment THEN "s1" ELSE ROUTER,
     ephemeralPubKey |-> KEY33, viewTag |-> IF privatePayment THEN VIEW_TAG ELSE 0,
     signature |-> Sign(AGENT, structHash(AGENT, ROUTER, amount, 0, now + HOUR, nonce))]

PayForAccessPay(privatePayment, nonce, rpcUp) ==
    LET amount == parseUnits(gateway.options.price)
        header == encodePaymentHeader(paymentOf(privatePayment, amount, nonce))
        r == middleware(gateway.by, gateway.options, header, rpcUp)
    IN  /\ gateway.pc = "quoted"
        /\ nonce \notin processed \cup noncesSeen
        /\ IF amount > MAX_PAYMENT
           THEN /\ gateway' = [gateway EXCEPT !.pc = "returned"]
                /\ UNCHANGED <<receipt, before>>
           ELSE /\ gateway' = [gateway EXCEPT
                       !.pc = "returned", !.header = header, !.status = r.status,
                       !.results = Append(@, [status |-> r.status, header |-> header]),
                       !.handled = @ \o Handled(gateway.by, gateway.options, header, rpcUp, r)]
                /\ Record(Served(gateway.by, gateway.options, header, rpcUp, r))
        /\ ChainUnchanged

\* the router params a payment header carries
paramsOf(payment) ==
    [from |-> payment.from, amount |-> BigInt(payment.amount).value,
     nonce |-> payment.nonce, validAfter |-> payment.validAfter,
     validBefore |-> payment.validBefore, stealthAddress |-> payment.stealthAddress,
     ephemeralPubKey |-> payment.ephemeralPubKey, viewTag |-> payment.viewTag,
     signature |-> payment.signature]

\* The servers: the SDK middleware needs a router address and may verify on
\* chain; the demo server reads both the RPC URL and the router address from its
\* environment.
Servers ==
    {<<"sdk", [price |-> x, rpcUrl |-> u, routerAddress |-> TRUE]>> :
        x \in {"0.01", "0.005"}, u \in BOOLEAN}
    \cup {<<"demo", [price |-> x, rpcUrl |-> u, routerAddress |-> u]>> :
        x \in {"0.01", "0.005"}, u \in BOOLEAN}

FullPrice(server) == server[2].price = "0.01"

\* Headers a client may send: none, text that is not JSON, the JSON text null,
\* the agent's payments as signed, and payments with a field missing or off.
ClientPayments == {paymentOf(TRUE, 10000, n) : n \in Nonces}

ClientHeaders ==
    {NoHeader, [encoding |-> "text"], [encoding |-> "null"]}
    \cup {encodePaymentHeader(m) : m \in ClientPayments}
    \cup {encodePaymentHeader([m EXCEPT !.amount = t]) :
             m \in {paymentOf(TRUE, 10000, "n1")}, t \in {"1", "abc", ""}}
    \cup {encodePaymentHeader([f \in DOMAIN m \ {"nonce"} |-> m[f]]) :
             m \in {paymentOf(TRUE, 10000, "n1")}}
    \cup {encodePaymentHeader([f \in DOMAIN m \ {"amount"} |-> m[f]]) :
             m \in {paymentOf(TRUE, 10000, "n2")}}

NextGateway ==
    \/ \E server \in {x \in Servers : FullPrice(x)}, h \in ClientHeaders, up \in BOOLEAN :
          Request(server[1], server[2], h, up)
    \/ \E m \in ClientPayments : ProcessPayment(FACILITATOR, paramsOf(m))

SpecGateway == Init /\ [][NextGateway]_vars

\* The agent's calls of payForAccess, and whoever settles the authorizations it
\* has sent.
AgentSteps ==
    \/ \E server \in Servers : PayForAccessFetch(server[1], server[2])
    \/ \E private \in BOOLEAN, n \in Nonces : PayForAccessPay(private, n, TRUE)

SettleSent ==
    \E k \in 1..Len(gateway.results) :
       ProcessPayment(FACILITATOR, paramsOf(gateway.results[k].header.payload))

NextPayForAccess ==
    \/ AgentSteps
    \/ \E private \in BOOLEAN, n \in Nonces : PayForAccessPay(private, n, FALSE)
    \/ SettleSent

\* Each await of payForAccess completes: the agent's steps are taken when they
\* can be.  Nothing in the code schedules a settlement.
SpecPayForAccess == Init /\ [][NextPayForAccess]_vars /\ WF_vars(AgentSteps)

\* on-chain verification is configured for the server
Verifying(options) == options.rpcUrl /\ options.routerAddress

\* the amount a header states, if it decodes to a payment that states one
StatedAmount(header) ==
    LET d == decodePaymentHeader(header) IN
    IF header = NoHeader \/ ~d.ok \/ d.isNull \/ "amount" \notin DOMAIN d.payment THEN Threw
    ELSE BigInt(d.payment.amount)

HasNonce(header) ==
    /\ StatedAmount(header).ok
    /\ "nonce" \in DOMAIN header.payload

\* C31: end-to-end progress.  Once the agent, holding the price, has been quoted
\* by a server that verifies on chain, that call of payForAccess leads to the
\* authorization it sends being settled (processed(nonce) true) and to its
\* request being served with 200.
C31_PaidRequestServed ==
    \A k \in 1..MaxCalls :
       (/\ gateway.calls = k
        /\ gateway.pc = "quoted"
        /\ Verifying(gateway.options)
        /\ balances[AGENT] >= parseUnits(gateway.options.price))
       ~> (/\ Len(gateway.results) >= k
           /\ gateway.results[k].status = 200
           /\ gateway.results[k].header.payload.nonce \in processed)

\* C32: payment gating.  A request reaches the handler only if its X-PAYMENT
\* header decodes, states an amount of at least the price and, when the server
\* verifies on chain, carries a nonce the router reports processed; a request
\* without the header is answered 402, an underpaying or unprocessed one 402, a
\* malformed one 400, and a failed verification call lets nothing through.
C32_HandlerOnlyAfterPayment ==
    receipt.op = "request" =>
       LET header == receipt.arg.header
           options == receipt.arg.options
           stated == StatedAmount(header)
       IN  /\ receipt.ok =>
                /\ stated.ok
                /\ stated.value >= parseUnits(options.price)
                /\ Verifying(options) =>
                      /\ HasNonce(header)
                      /\ header.payload.nonce \in processed
                      /\ receipt.arg.rpcUp
           /\ header = NoHeader => receipt.arg.status = 402
           /\ (header # NoHeader /\ ~decodePaymentHeader(header).ok) =>
                 receipt.arg.status = 400
           /\ (stated.ok /\ stated.value < parseUnits(options.price)) =>
                 receipt.arg.status = 402
           /\ (/\ stated.ok /\ stated.value >= parseUnits(options.price)
               /\ Verifying(options) /\ receipt.arg.rpcUp /\ HasNonce(header)
               /\ header.payload.nonce \notin processed) =>
                 receipt.arg.status = 402

\* C39: one settled payment buys one request.  Of the requests that reached the
\* handler after the router confirmed their nonce as processed, at most one
\* carries a given nonce.
C39_OneRequestPerPayment ==
    \A i, j \in 1..Len(gateway.handled) :
       (/\ gateway.handled[i].confirmed
        /\ gateway.handled[j].confirmed
        /\ gateway.handled[i].header.payload.nonce
              = gateway.handled[j].header.payload.nonce)
       => i = j
====
